---- MODULE Spec2Model ----
(***************************************************************************)
(* Bridge transport subsystem of sutu_blender_bridge: the connection       *)
(* manager (bridge/client.py) with its background worker, the host calls   *)
(* that race with it, the peer on the other end of the socket, and the     *)
(* frame sender's use of the client (bridge/frame_sender.py).              *)
(*                                                                         *)
(* Every `with self._state_lock` region, every queue operation and every   *)
(* socket call of the code is one atomic step; the worker thread, the host *)
(* thread and the peer interleave between steps.                           *)
(***************************************************************************)
EXTENDS Integers, Sequences, FiniteSets, TLC

----------------------------------------------------------------------------
(* Program constants *)

HEARTBEAT_INTERVAL_MS == 1000
HEARTBEAT_TIMEOUT_MS == 5000
MAX_INFLIGHT_FRAMES == 3
RECONNECT_BACKOFF_SEC == <<500, 1000, 2000, 5000>>   \* milliseconds

BRIDGE_TRANSPORT_SHM == "shm"
BRIDGE_TRANSPORT_TCP_LZ4 == "tcp_lz4"

E_PORT_INVALID == "E_PORT_INVALID"
E_PROTO_MISMATCH == "E_PROTO_MISMATCH"
E_MSG_TOO_LARGE == "E_MSG_TOO_LARGE"
E_SOCKET_IO == "E_SOCKET_IO"
E_HEARTBEAT_TIMEOUT == "E_HEARTBEAT_TIMEOUT"
E_STOP_REQUESTED == "E_STOP_REQUESTED"

MIN_PORT == 1024
MAX_PORT == 65535
DEFAULT_PORT == 30121

(* Bounds of the model *)

TickMs == 2500          \* the clock advances in steps of TickMs milliseconds
MaxSessions == 2        \* successful handshakes per run
MaxInbox == 1           \* frames the peer has sent and the worker has not read
MaxQueue == 2           \* capacity of the send queue (512 in the code)
MaxFrameId == 1         \* frame ids the host registers
MaxFails == 6           \* failed sessions the history counts

(* Python's None for the optional fields *)
None == "None"
NoInt == 0

----------------------------------------------------------------------------
(* Python objects *)

\* A Python object of a control message: None, a bool, an int, a str, a list or
\* a dict; the items of a dict are its keys and values in turn, in insertion
\* order
PyValue(t, n, s, items) == [t |-> t, n |-> n, s |-> s, items |-> items]
PyNone == PyValue("none", 0, "", <<>>)
PyBool(b) == PyValue("bool", IF b THEN 1 ELSE 0, "", <<>>)
PyInt(n) == PyValue("int", n, "", <<>>)
PyStr(s) == PyValue("str", 0, s, <<>>)
PyList(items) == PyValue("list", 0, "", items)
PyDict(items) == PyValue("dict", 0, "", items)

\* a float, in tenths; inf and nan are floats of their own
PyFloat(tenths) == PyValue("float", tenths, "", <<>>)
PyInf == PyValue("float", 0, "inf", <<>>)
PyNan == PyValue("float", 0, "nan", <<>>)

\* the targetWidth / targetHeight of the messages written with integers: 0 is
\* an absent field
Wire(n) == IF n = 0 THEN PyNone ELSE PyInt(n)

----------------------------------------------------------------------------
(* Control messages as the peer puts them on the wire.  kind is the type   *)
(* token after msgpack decoding; "unknown" is a type token outside the     *)
(* table, "garbage" a frame msgpack cannot decode, "oversize" a length     *)
(* prefix above MAX_CONTROL_MESSAGE_BYTES.                                  *)

Msg(kind, accepted, transport, code, text, fid, tw, th) ==
    [kind |-> kind, accepted |-> accepted, transport |-> transport,
     code |-> code, text |-> text, fid |-> fid, tw |-> Wire(tw), th |-> Wire(th)]

NoMsg == Msg("none", FALSE, None, "", "", 0, 0, 0)

\* selectedTransport values a peer may send (strings, small integers, nil)
TransportWire == {"shm", "tcp_lz4", "Shared-Memory", "int0", "int1", "int2", "udp", None}

\* error codes and texts a peer may send ("" is a missing or empty field)
PeerErrorCodes == {"", "E_PEER", E_SOCKET_IO, E_STOP_REQUESTED}
PeerErrorTexts == {"", "plain", "forcibly closed by the remote host"}

\* targetWidth / targetHeight of a heartbeat: 0 is absent, -1 non-positive
HintWire == {<<0, 0>>, <<4, 4>>, <<-1, 4>>}

HelloAckMsgs ==
    {Msg("hello_ack", a, t, "", "", 0, 0, 0) : a \in BOOLEAN, t \in TransportWire}
HeartbeatMsgs ==
    {Msg("heartbeat", FALSE, None, "", "", 0, h[1], h[2]) : h \in HintWire}
AckMsgs ==
    {Msg("ack", FALSE, None, "", "", f, 0, 0) : f \in 0..MaxFrameId}
ErrorMsgs ==
    {Msg("error", FALSE, None, c, t, 0, 0, 0) : c \in PeerErrorCodes, t \in PeerErrorTexts}
OtherMsgs ==
    {Msg(k, FALSE, None, "", "", 0, 0, 0) : k \in {"start_stream", "unknown", "garbage", "oversize"}}

PeerMsgs == HelloAckMsgs \cup HeartbeatMsgs \cup AckMsgs \cup ErrorMsgs \cup OtherMsgs

\* messages.py _CONTROL_MESSAGE_TYPES
CONTROL_MESSAGE_TYPES ==
    {"hello", "hello_ack", "start_stream", "stop_stream", "frame_meta", "ack",
     "error", "heartbeat"}

\* messages.py _normalize_transport_value
normalize_transport_value(value) ==
    CASE value \in {BRIDGE_TRANSPORT_SHM, BRIDGE_TRANSPORT_TCP_LZ4} -> value
      [] value \in {"Shared-Memory", "int0"} -> BRIDGE_TRANSPORT_SHM
      [] value \in {"tcp-lz4", "int1"} -> BRIDGE_TRANSPORT_TCP_LZ4
      [] OTHER -> value

----------------------------------------------------------------------------
(* Exceptions: the class decides the handler of _worker_main, code and     *)
(* text are what the handler reads, site is the raising statement.         *)

Exc(cls, code, text, site) == [cls |-> cls, code |-> code, text |-> text, site |-> site]
NoExc == Exc("none", "", "", "")

BridgeClientError(code, text, site) == Exc("BridgeClientError", code, text, site)
BridgeProtocolError(code, site) == Exc("BridgeProtocolError", code, "", site)
FrameError(code, site) == Exc("FrameError", code, "", site)
OtherException(site) == Exc("Exception", "", "", site)

\* texts of an OSError of a socket call: the platform words it
PEER_CLOSED_TEXT == "socket closed by peer"      \* client.py:375
\* str(OSError) of a call on a socket this side has closed (EBADF)
CLOSED_SOCKET_TEXT == "Bad file descriptor"
OsErrorTexts == {"plain", "WinError 10054 forcibly closed by the remote host"}

\* no error is the expected close of the peer
is_expected_peer_close_error_never(exc) == FALSE

\* client.py _is_expected_peer_close_error: substring tests on str(exc)
is_expected_peer_close_error(exc) ==
    IF exc.code # E_SOCKET_IO THEN FALSE
    ELSE exc.text \in {PEER_CLOSED_TEXT,
                       "WinError 10054 forcibly closed by the remote host",
                       "forcibly closed by the remote host"}

----------------------------------------------------------------------------
VARIABLES
    client,      \* BridgeClient's fields guarded by _state_lock / _socket_lock
    send_queue,  \* BridgeClient._send_queue: framed outbound buffers
    worker,      \* the worker thread: position and locals of _worker_main
    host,        \* the host thread: position inside the API call it is in
    net,         \* the TCP connection and the peer behind it
    sender,      \* FrameSender's fields (the host thread owns them)
    ghost,       \* history the claims read; no action's guard reads it
    framing,     \* framing.py: a FrameDecoder and the byte stream it is fed
    shm,         \* shm_ring.py: the shared memory segments and the rings on them
    codec        \* messages.py: a control message, its bytes and what they decode to

vars == <<client, send_queue, worker, host, net, sender, ghost, framing, shm, codec>>

States == {"disabled", "listening", "handshaking", "streaming", "recovering"}

\* BridgeClient.__init__; orphans is no field of the object: the number of
\* threads still running _worker_main beside the one the worker variable follows
InitClient ==
    [state |-> "disabled", enabled |-> FALSE, port |-> DEFAULT_PORT,
     transport |-> None, degraded |-> FALSE,
     session_counter |-> 0, active_session_id |-> NoInt,
     last_error |-> None, target_hint |-> <<NoInt, NoInt>>,
     socket |-> FALSE, stop_event |-> FALSE, worker_thread |-> FALSE,
     inflight |-> <<>>, orphans |-> 0, maxsize |-> MaxQueue]

\* locals of _worker_main / _run_session; pc "dead" is a thread that is not running
InitWorker ==
    [pc |-> "dead", backoff_index |-> 0, fast_reconnect |-> FALSE,
     exc |-> NoExc, after |-> "normal", delay |-> 0,
     sel |-> None, hs_elapsed |-> 0, hb_age |-> 0, sent_age |-> 0]

\* a framed buffer of the send queue: kind is the control message's type, "ctl"
\* for one the caller built, or "chunk" for a binary chunk; fid the frame id it
\* belongs to (0: none); slot the shmSlot of a frame_meta (-1: none); tag, kept
\* when ghost.tagging, the session id the status showed when it was enqueued
Item(kind, fid, slot, tag) == [kind |-> kind, fid |-> fid, slot |-> slot, tag |-> tag]
NoItem == Item("none", 0, -1, 0)

\* pc: where the host thread is inside its call; item: the buffer
\* _enqueue_frame_bytes is putting and cont what follows it; fid: the frame id of
\* the call; then: what follows _stop_worker; transport: the local of
\* send_rgba_frame; args: width, height and len(pixels) of the call;
\* session: the session id the status showed when send_rgba_frame was called,
\* if it showed streaming on tcp_lz4, else 0; log: the buffers the call has
\* put; result: what it returns (0: None, -1: ValueError)
InitHost ==
    [pc |-> "idle", item |-> NoItem, cont |-> "idle", fid |-> 0, then |-> "idle",
     transport |-> None, args |-> <<0, 0, 0>>, session |-> 0,
     log |-> <<>>, result |-> 0]

\* threads that call send_rgba_frame at the same time
Callers == {1, 2}

\* a call of send_rgba_frame at lines 96-98: tmp is the value `+=` has loaded,
\* seen the largest id returned before the call
NoCall == [pc |-> "idle", tmp |-> 0, seen |-> 0]

\* FrameSender.__init__ (frame_sender.py:38-53); write_index is the ring's
\* _next_slot (shm_ring.py:39); lock is the holder of _lock (0: free), calls
\* the calls in progress and returned the ids the calls have returned, in order
InitSender ==
    [frame_id |-> 0, streaming |-> FALSE, write_index |-> 0,
     lock |-> 0, calls |-> [t \in Callers |-> NoCall], returned |-> <<>>]

\* conn: "none" | "open" | "closed" (closed on this side);
\* peer: "none" | "open" | "fin" (closed cleanly) | "rst" (reset)
InitNet ==
    [listener |-> TRUE, conn |-> "none", peer |-> "none", hello_seen |-> FALSE,
     inbox |-> <<>>]

\* first_msg: the first control message the worker read on the connection;
\* fails: the sessions of this worker that have failed, counted when counting;
\* streamed: a session of this worker reached streaming; sess_streamed: the
\* current session did; since_hb: milliseconds since the session started or a
\* peer heartbeat was handled; tagging: the send queue's buffers are tagged;
\* tx: the tag of the last buffer written to a socket and the session it was
\* written in; logging: the lines the client prints are kept; dropped: the frame
\* id of the last "drop stale inflight frame" line (client.py:211; 0: none);
\* tracing: the byte stream of the connection is kept; wire: the last frame
\* written to the socket of the current connection
InitGhost ==
    [first_msg |-> NoMsg, fails |-> 0, streamed |-> FALSE, sess_streamed |-> FALSE,
     since_hb |-> 0, tagging |-> FALSE, counting |-> FALSE, tx |-> <<0, 0>>,
     logging |-> FALSE, dropped |-> 0, tracing |-> FALSE, wire |-> NoItem,
     acking |-> FALSE, acked |-> {}, seqing |-> FALSE, committed |-> {}]

\* the history after sock.sendall has written the frame
Written(g, item) == IF g.tracing THEN [g EXCEPT !.wire = [item EXCEPT !.tag = 0]] ELSE g

\* FrameDecoder.__init__ (framing.py:15-17): max_payload_len, buffer, and exc the
\* FrameError push_bytes has raised; the stream it is fed: todo the payloads to
\* encode, sent the payloads encoded, wire their bytes not yet pushed, out the
\* payloads push_bytes has returned, enc_exc the FrameError of encode_frame,
\* pushes the calls of push_bytes with a chunk that is not empty
InitFraming ==
    [max_payload_len |-> 0, buffer |-> <<>>, exc |-> NoExc,
     todo |-> <<>>, sent |-> <<>>, wire |-> <<>>, out |-> <<>>, enc_exc |-> NoExc,
     pushes |-> 0]

\* a slot of a segment: its header (shm_ring.py:102-105: seq, payload length,
\* frame id, timestamp) and its payload, in two halves
SlotZero == [seq |-> 0, len |-> 0, fid |-> 0, ts |-> 0, p1 |-> 0, p2 |-> 0]

\* locals of the write_slot in progress
NoWriter ==
    [ring |-> 0, slot |-> 0, len |-> 0, fid |-> 0, ts |-> 0,
     writing_seq |-> 0, next_committed_seq |-> 0, cont |-> "idle",
     op |-> "write_slot"]

\* a reader of the peer's process: the segment and slot it reads, the seq it
\* read first, its copy of the slot, and whether it has accepted the copy
NoReader ==
    [pc |-> "idle", seg |-> 0, slot |-> 0, s1 |-> 0, copy |-> SlotZero,
     accepted |-> FALSE]

\* no message yet: msg is the object given to encode_control_message, form the
\* wire shape it has, expect the canonical message it stands for, packed its
\* bytes, decoded what decode_control_message returns, exc what either raised
InitCodec ==
    [pc |-> "idle", msg |-> PyNone, form |-> "", expect |-> PyNone,
     packed |-> <<>>, decoded |-> PyNone, exc |-> NoExc]

\* now: time.monotonic() in seconds; segs: every segment created, each with
\* its name, whether the name is still linked, its size and its slots; rings:
\* every SharedMemoryRing object constructed (shm_ring.py:36-52); shm_ring,
\* last_ring_name, last_ring_size, retired_rings: FrameSender's fields
\* (frame_sender.py:46-49; 0 stands for None); exc, ret: what the last call on a
\* ring raised or returned.  A ring's calls counts its write_next calls that
\* found it open.  no_space: the system has no room for a new segment
\* (shared_memory.SharedMemory raises OSError).
InitShm ==
    [now |-> 0, no_space |-> FALSE, segs |-> <<>>, rings |-> <<>>,
     shm_ring |-> 0, last_ring_name |-> None, last_ring_size |-> NoInt,
     retired_rings |-> <<>>,
     writer |-> NoWriter, reader |-> NoReader, exc |-> NoExc, ret |-> -1]

Init ==
    /\ client = InitClient
    /\ send_queue = <<>>
    /\ worker = InitWorker
    /\ host = InitHost
    /\ net = InitNet
    /\ sender = InitSender
    /\ framing = InitFraming
    /\ shm = InitShm
    /\ codec = InitCodec
    /\ ghost = InitGhost

----------------------------------------------------------------------------
(* BridgeClient's small methods, as functions of the client record *)

\* _set_state that forgets to reset the session id
set_state_keeps_session(c, s) == [c EXCEPT !.state = s, !.transport = None]

\* client.py _set_state
set_state(c, s) ==
    IF s # "streaming"
    THEN [c EXCEPT !.state = s, !.transport = None, !.degraded = FALSE,
                   !.active_session_id = NoInt, !.inflight = <<>>,
                   !.target_hint = <<NoInt, NoInt>>]
    ELSE [c EXCEPT !.state = s]

\* _set_error that records nothing
set_error_dropped(c, code) == c

\* client.py _set_error (the message text is not kept)
set_error(c, code) == [c EXCEPT !.last_error = code]

\* client.py _clear_error
clear_error(c) == [c EXCEPT !.last_error = None]

\* int(value) of an int or a float: a float is cut towards zero
py_int(value) ==
    IF value.t = "int" THEN value.n
    ELSE IF value.n >= 0 THEN value.n \div 10 ELSE 0 - ((0 - value.n) \div 10)

\* int(value) raises: OverflowError for inf, ValueError for nan
int_raises(value) == value.t = "float" /\ value.s # ""

\* client.py _normalize_optional_positive_int (0 stands for None)
normalize_optional_positive_int(value) ==
    IF value.t \notin {"int", "float"} THEN NoInt
    ELSE IF py_int(value) <= 0 THEN NoInt ELSE py_int(value)

\* client.py:468-469  one of the two calls raises
hint_raises(tw, th) == int_raises(tw) \/ int_raises(th)

\* client.py _update_stream_target_hint
update_stream_target_hint(c, tw, th) ==
    [c EXCEPT !.target_hint = <<normalize_optional_positive_int(tw),
                                normalize_optional_positive_int(th)>>]

\* the sequence s without the first occurrence of x (deque.remove)
RECURSIVE RemoveFirst(_, _)
RemoveFirst(s, x) ==
    IF s = <<>> THEN <<>>
    ELSE IF Head(s) = x THEN Tail(s)
    ELSE <<Head(s)>> \o RemoveFirst(Tail(s), x)

\* _ack_inflight_frame that takes an ack for every frame up to frame_id
ack_inflight_frame_cumulative(c, frame_id) ==
    [c EXCEPT !.inflight = SelectSeq(c.inflight, LAMBDA x : x > frame_id)]

\* client.py _ack_inflight_frame
ack_inflight_frame(c, frame_id) ==
    [c EXCEPT !.inflight = RemoveFirst(c.inflight, frame_id)]

\* _register_inflight_frame that drops the newest pending id, not the oldest
register_inflight_frame_drop_newest(c, frame_id) ==
    LET kept == IF Len(c.inflight) >= MAX_INFLIGHT_FRAMES
                THEN SubSeq(c.inflight, 1, Len(c.inflight) - 1) ELSE c.inflight
    IN [c EXCEPT !.inflight = Append(kept, frame_id)]

\* client.py _register_inflight_frame
register_inflight_frame(c, frame_id) ==
    LET kept == IF Len(c.inflight) >= MAX_INFLIGHT_FRAMES
                THEN Tail(c.inflight) ELSE c.inflight
    IN [c EXCEPT !.inflight = Append(kept, frame_id)]

Min(a, b) == IF a < b THEN a ELSE b

\* the outcomes of sock.sendall on the connection: "ok" or the OSError's text
SendOutcomes(n) ==
    IF n.conn # "open" THEN {CLOSED_SOCKET_TEXT}
    ELSE CASE n.peer = "open" -> {"ok"}
           [] n.peer = "fin" -> {"ok", "plain"}
           [] OTHER -> OsErrorTexts

\* the worker raises: the exception goes to the handlers of _worker_main
Raise(w, exc) ==
    [w EXCEPT !.pc = "wm_except", !.exc = exc, !.sel = None,
              !.hb_age = 0, !.sent_age = 0]

----------------------------------------------------------------------------
(* The worker thread: _worker_main (client.py:240-297) *)

\* the locals of one turn of the loop of _worker_main are dead at its next turn
NextTurn(w) ==
    [w EXCEPT !.fast_reconnect = FALSE, !.exc = NoExc, !.after = "normal",
              !.delay = 0, !.sel = None, !.hs_elapsed = 0]

\* client.py:242-243  while not self._stop_event.is_set(): fast_reconnect = False
worker_main_loop ==
    /\ worker.pc = "wm_loop"
    /\ worker' = [NextTurn(worker) EXCEPT
                    !.pc = IF client.stop_event THEN "wm_exit" ELSE "wm_snapshot"]
    /\ UNCHANGED <<client, send_queue, host, net, ghost, sender, framing, shm, codec>>

\* client.py:244-245  config = self._snapshot_config()
worker_main_snapshot ==
    /\ worker.pc = "wm_snapshot"
    /\ worker' = [worker EXCEPT !.pc = IF client.enabled THEN "wm_listening"
                                       ELSE "wm_disabled"]
    /\ UNCHANGED <<client, send_queue, host, net, ghost, sender, framing, shm, codec>>

\* client.py:246  self._set_state("disabled")
worker_main_disabled ==
    /\ worker.pc = "wm_disabled"
    /\ client' = set_state(client, "disabled")
    /\ worker' = [worker EXCEPT !.pc = "wm_idle"]
    /\ UNCHANGED <<send_queue, host, net, ghost, sender, framing, shm, codec>>

\* client.py:247-249  if self._wait_stop(0.1): break / continue
worker_main_idle ==
    /\ worker.pc = "wm_idle"
    /\ worker' = [worker EXCEPT !.pc = IF client.stop_event THEN "wm_exit" ELSE "wm_loop"]
    /\ UNCHANGED <<client, send_queue, host, net, ghost, sender, framing, shm, codec>>

\* client.py:251  self._set_state("listening")
worker_main_listening ==
    /\ worker.pc = "wm_listening"
    /\ client' = set_state(client, "listening")
    /\ worker' = [worker EXCEPT !.pc = "rs_handshaking"]
    /\ UNCHANGED <<send_queue, host, net, ghost, sender, framing, shm, codec>>

\* client.py:256-276  the except clauses, up to the first shared read
worker_main_except ==
    /\ worker.pc = "wm_except"
    /\ LET exc == worker.exc IN
       CASE exc.cls = "BridgeClientError" /\ exc.code = E_STOP_REQUESTED ->
              /\ worker' = [worker EXCEPT !.pc = "wm_finally_close", !.after = "break"]
              /\ client' = client
         [] exc.cls = "BridgeClientError" /\ exc.code # E_STOP_REQUESTED ->
              /\ worker' = [worker EXCEPT !.pc = "wm_exc_stop"]
              /\ client' = client
         [] exc.cls \in {"BridgeProtocolError", "FrameError"} ->
              /\ worker' = [worker EXCEPT !.pc = "wm_finally_close"]
              /\ client' = set_error(client, exc.code)
         [] OTHER ->
              /\ worker' = [worker EXCEPT !.pc = "wm_finally_close"]
              /\ client' = set_error(client, E_SOCKET_IO)
    /\ ghost' = IF ghost.counting
                THEN [ghost EXCEPT !.fails = Min(ghost.fails + 1, MaxFails)]
                ELSE ghost
    /\ UNCHANGED <<send_queue, host, net, sender, framing, shm, codec>>

\* client.py:259-261  if self._stop_event.is_set(): self._clear_error(); break
worker_main_exc_stop ==
    /\ worker.pc = "wm_exc_stop"
    /\ IF client.stop_event
       THEN /\ client' = clear_error(client)
            /\ worker' = [worker EXCEPT !.pc = "wm_finally_close", !.after = "break"]
       ELSE /\ client' = client
            /\ worker' = [worker EXCEPT !.pc = "wm_exc_cfg"]
    /\ UNCHANGED <<send_queue, host, net, ghost, sender, framing, shm, codec>>

\* client.py:262-264  if not enable_connection: self._clear_error(); continue
worker_main_exc_cfg ==
    /\ worker.pc = "wm_exc_cfg"
    /\ IF ~client.enabled
       THEN /\ client' = clear_error(client)
            /\ worker' = [worker EXCEPT !.pc = "wm_finally_close", !.after = "continue"]
       ELSE /\ client' = client
            /\ worker' = [worker EXCEPT !.pc = "wm_exc_record"]
    /\ UNCHANGED <<send_queue, host, net, ghost, sender, framing, shm, codec>>

\* client.py:265-271  fast reconnect on the expected peer close, else _set_error
worker_main_exc_record ==
    /\ worker.pc = "wm_exc_record"
    /\ IF is_expected_peer_close_error(worker.exc)
       THEN /\ client' = clear_error(client)
            /\ worker' = [worker EXCEPT !.pc = "wm_finally_close", !.fast_reconnect = TRUE]
       ELSE /\ client' = set_error(client, worker.exc.code)
            /\ worker' = [worker EXCEPT !.pc = "wm_finally_close"]
    /\ UNCHANGED <<send_queue, host, net, ghost, sender, framing, shm, codec>>

\* client.py:255  backoff_index = 0 (after _run_session returned)
worker_main_returned ==
    /\ worker.pc = "wm_returned"
    /\ worker' = [worker EXCEPT !.pc = "wm_finally_close", !.backoff_index = 0]
    /\ UNCHANGED <<client, send_queue, host, net, ghost, sender, framing, shm, codec>>

\* client.py _close_socket (490-503), on the client record and the connection
close_socket_client(c) == [c EXCEPT !.socket = FALSE]
close_socket_net(c, n) ==
    IF c.socket THEN [n EXCEPT !.conn = "closed", !.peer = "none", !.inbox = <<>>] ELSE n

\* client.py:277-278  finally: self._close_socket()
worker_main_finally_close ==
    /\ worker.pc = "wm_finally_close"
    /\ client' = close_socket_client(client)
    /\ net' = close_socket_net(client, net)
    /\ worker' = [worker EXCEPT !.pc = "wm_finally_clear"]
    /\ UNCHANGED <<send_queue, host, ghost, sender, framing, shm, codec>>

\* client.py _clear_send_queue (513-518)
clear_send_queue(q) == <<>>

\* client.py:280  finally: self._clear_send_queue(), then break / continue / go on
worker_main_finally_clear ==
    /\ worker.pc = "wm_finally_clear"
    /\ send_queue' = clear_send_queue(send_queue)
    /\ worker' = [worker EXCEPT !.pc = CASE worker.after = "break" -> "wm_exit"
                                         [] worker.after = "continue" -> "wm_loop"
                                         [] OTHER -> "wm_after_stop"]
    /\ UNCHANGED <<client, host, net, ghost, sender, framing, shm, codec>>

\* client.py:282-283  if self._stop_event.is_set(): break
worker_main_after_stop ==
    /\ worker.pc = "wm_after_stop"
    /\ worker' = [worker EXCEPT !.pc = IF client.stop_event THEN "wm_exit"
                                       ELSE "wm_after_cfg"]
    /\ UNCHANGED <<client, send_queue, host, net, ghost, sender, framing, shm, codec>>

\* client.py:284-289  if not enable_connection: continue; if fast_reconnect: ...
worker_main_after_cfg ==
    /\ worker.pc = "wm_after_cfg"
    /\ worker' = IF ~client.enabled THEN [worker EXCEPT !.pc = "wm_loop"]
                 ELSE IF worker.fast_reconnect
                      THEN [worker EXCEPT !.pc = "wm_loop", !.backoff_index = 0]
                      ELSE [worker EXCEPT !.pc = "wm_recovering"]
    /\ UNCHANGED <<client, send_queue, host, net, ghost, sender, framing, shm, codec>>

\* client.py:292  delay = RECONNECT_BACKOFF_SEC[min(backoff_index, len - 1)]
backoff_delay(backoff_index) ==
    RECONNECT_BACKOFF_SEC[Min(backoff_index, Len(RECONNECT_BACKOFF_SEC) - 1) + 1]

\* the next tier, capped one tier early
next_backoff_index_early_cap(backoff_index) ==
    Min(backoff_index + 1, Len(RECONNECT_BACKOFF_SEC) - 2)

\* client.py:293  backoff_index = min(backoff_index + 1, len - 1)
next_backoff_index(backoff_index) ==
    Min(backoff_index + 1, Len(RECONNECT_BACKOFF_SEC) - 1)

\* client.py:291-293  self._set_state("recovering"), the delay and the next tier
worker_main_recovering ==
    /\ worker.pc = "wm_recovering"
    /\ client' = set_state(client, "recovering")
    /\ worker' = [worker EXCEPT !.pc = "wm_backoff",
                                !.delay = backoff_delay(worker.backoff_index),
                                !.backoff_index = next_backoff_index(worker.backoff_index)]
    /\ UNCHANGED <<send_queue, host, net, ghost, sender, framing, shm, codec>>

\* client.py:294-295  if self._wait_stop(delay): break
worker_main_backoff ==
    /\ worker.pc = "wm_backoff"
    /\ worker' = [worker EXCEPT !.pc = IF client.stop_event THEN "wm_exit" ELSE "wm_loop"]
    /\ UNCHANGED <<client, send_queue, host, net, ghost, sender, framing, shm, codec>>

\* client.py:297  self._set_state("disabled"); the thread ends
worker_main_exit ==
    /\ worker.pc = "wm_exit"
    /\ client' = set_state(client, "disabled")
    /\ worker' = InitWorker
    /\ UNCHANGED <<send_queue, host, net, ghost, sender, framing, shm, codec>>

----------------------------------------------------------------------------
(* The worker thread: _run_session (client.py:299-359) *)

\* client.py:300  self._set_state("handshaking")
run_session_handshaking ==
    /\ worker.pc = "rs_handshaking"
    /\ client' = set_state(client, "handshaking")
    /\ worker' = [worker EXCEPT !.pc = "rs_connect"]
    /\ UNCHANGED <<send_queue, host, net, ghost, sender, framing, shm, codec>>

\* the outcomes of socket.create_connection: a peer accepts only while it listens
ConnectOutcomes ==
    IF net.listener /\ client.session_counter < MaxSessions
    THEN {"ok", "refused", "timeout"} ELSE {"refused", "timeout"}

\* client.py:301-311  decoder = FrameDecoder(...); sock = socket.create_connection(...)
run_session_connect ==
    /\ worker.pc = "rs_connect"
    /\ \E outcome \in ConnectOutcomes :
         IF outcome = "ok"
         THEN /\ net' = [net EXCEPT !.conn = "open", !.peer = "open",
                                    !.hello_seen = FALSE, !.inbox = <<>>]
              /\ worker' = [worker EXCEPT !.pc = "rs_set_socket"]
              /\ ghost' = [ghost EXCEPT !.first_msg = NoMsg, !.sess_streamed = FALSE,
                                        !.since_hb = 0]
         ELSE /\ net' = net
              /\ worker' = Raise(worker, BridgeClientError(E_SOCKET_IO, "plain", "connect"))
              /\ ghost' = [ghost EXCEPT !.first_msg = NoMsg, !.sess_streamed = FALSE,
                                        !.since_hb = 0]
    /\ UNCHANGED <<client, send_queue, host, sender, framing, shm, codec>>

\* client.py:311-312  sock.settimeout(0.05); self._set_socket(sock)
run_session_set_socket ==
    /\ worker.pc = "rs_set_socket"
    /\ client' = [client EXCEPT !.socket = TRUE]
    /\ worker' = [worker EXCEPT !.pc = "rs_clear_error"]
    /\ UNCHANGED <<send_queue, host, net, ghost, sender, framing, shm, codec>>

\* client.py:313  self._clear_error()
run_session_clear_error ==
    /\ worker.pc = "rs_clear_error"
    /\ client' = clear_error(client)
    /\ worker' = [worker EXCEPT !.pc = "rs_hello"]
    /\ UNCHANGED <<send_queue, host, net, ghost, sender, framing, shm, codec>>

\* client.py:315-320  self._send_control_now(sock, hello); 322: the deadline starts
run_session_send_hello ==
    /\ worker.pc = "rs_hello"
    /\ \E outcome \in SendOutcomes(net) :
         IF outcome = "ok"
         THEN /\ net' = [net EXCEPT !.hello_seen = TRUE]
              /\ worker' = [worker EXCEPT !.pc = "rs_read_ack", !.hs_elapsed = 0]
              /\ ghost' = Written(ghost, Item("hello", 0, -1, 0))
         ELSE /\ net' = net
              /\ worker' = Raise(worker, BridgeClientError(E_SOCKET_IO, outcome, "send_hello"))
              /\ ghost' = ghost
    /\ UNCHANGED <<client, send_queue, host, sender, framing, shm, codec>>

\* messages.py decode_control_message: the frames it rejects
decode_fails(m) == m.kind \notin CONTROL_MESSAGE_TYPES

\* a handshake that takes any hello_ack for an acceptance
parse_hello_ack_trusting(m) ==
    CASE decode_fails(m) -> BridgeProtocolError(E_PROTO_MISMATCH, "decode")
      [] m.kind # "hello_ack" -> BridgeProtocolError(E_PROTO_MISMATCH, "expect_type")
      [] OTHER -> NoExc

\* messages.py parse_hello_ack after expect_message_type, then client.py:324-330:
\* the exception the first control message of a session ends in, NoExc if none
parse_hello_ack(m) ==
    LET selected == normalize_transport_value(m.transport)
        recognized == selected \in {BRIDGE_TRANSPORT_SHM, BRIDGE_TRANSPORT_TCP_LZ4}
    IN CASE decode_fails(m) -> BridgeProtocolError(E_PROTO_MISMATCH, "decode")
         [] m.kind # "hello_ack" -> BridgeProtocolError(E_PROTO_MISMATCH, "expect_type")
         [] m.accepted /\ ~recognized -> BridgeProtocolError(E_PROTO_MISMATCH, "parse_hello_ack")
         [] ~m.accepted -> BridgeClientError(E_PROTO_MISMATCH, "plain", "rejected")
         [] ~recognized -> BridgeClientError(E_PROTO_MISMATCH, "plain", "transport")
         [] OTHER -> NoExc

\* framing.py FrameDecoder.push_bytes raises on a length prefix above the limit
push_bytes_fails(chunk) == \E i \in 1..Len(chunk) : chunk[i].kind = "oversize"

\* client.py:322-330 and _read_control_message_until (406-428): one turn of the
\* read loop; the frames of the chunk after the first are dropped with the list
run_session_read_ack ==
    /\ worker.pc = "rs_read_ack"
    /\ IF worker.hs_elapsed >= HEARTBEAT_TIMEOUT_MS
       THEN /\ worker' = Raise(worker, BridgeClientError(E_PROTO_MISMATCH, "plain", "deadline"))
            /\ UNCHANGED <<net, ghost, codec>>
       ELSE IF client.stop_event
       THEN /\ worker' = Raise(worker, BridgeClientError(E_STOP_REQUESTED, "plain", "hs_stop"))
            /\ UNCHANGED <<net, ghost, codec>>
       ELSE IF net.conn # "open"
       THEN /\ worker' = Raise(worker, BridgeClientError(E_SOCKET_IO, CLOSED_SOCKET_TEXT, "hs_recv"))
            /\ UNCHANGED <<net, ghost, codec>>
       ELSE IF net.peer = "rst"
       THEN /\ \E text \in OsErrorTexts :
                 worker' = Raise(worker, BridgeClientError(E_SOCKET_IO, text, "hs_recv"))
            /\ UNCHANGED <<net, ghost, codec>>
       ELSE IF net.inbox # <<>>
       THEN \E k \in 1..Len(net.inbox) :
              LET chunk == SubSeq(net.inbox, 1, k)
                  exc == IF push_bytes_fails(chunk)
                         THEN FrameError(E_MSG_TOO_LARGE, "push_bytes")
                         ELSE parse_hello_ack(chunk[1])
              IN /\ net' = [net EXCEPT !.inbox = SubSeq(net.inbox, k + 1, Len(net.inbox))]
                 /\ ghost' = IF push_bytes_fails(chunk) THEN ghost
                             ELSE [ghost EXCEPT !.first_msg = chunk[1]]
                 /\ worker' = IF exc # NoExc THEN Raise(worker, exc)
                              ELSE [worker EXCEPT !.pc = "rs_streaming",
                                      !.sel = normalize_transport_value(chunk[1].transport)]
       ELSE /\ net.peer = "fin"
            /\ worker' = Raise(worker, BridgeClientError(E_SOCKET_IO, "plain", "hs_closed"))
            /\ UNCHANGED <<net, ghost, codec>>
    /\ UNCHANGED <<client, send_queue, host, sender, framing, shm, codec>>

\* the start of a session that leaves the counter as it is
run_session_streaming_same_id ==
    /\ worker.pc = "rs_streaming"
    /\ client' = [client EXCEPT !.active_session_id = client.session_counter,
                                !.transport = worker.sel,
                                !.degraded = FALSE,
                                !.state = "streaming",
                                !.inflight = <<>>,
                                !.target_hint = <<NoInt, NoInt>>]
    /\ worker' = [worker EXCEPT !.pc = "ss_loop", !.sel = None, !.hs_elapsed = 0,
                                !.hb_age = 0, !.sent_age = HEARTBEAT_INTERVAL_MS]
    /\ ghost' = [ghost EXCEPT !.streamed = TRUE, !.sess_streamed = TRUE, !.since_hb = 0]
    /\ UNCHANGED <<send_queue, host, net, sender, framing, shm, codec>>

\* client.py:332-344  the handshake is complete: the session starts
run_session_streaming ==
    /\ worker.pc = "rs_streaming"
    /\ client' = [client EXCEPT !.session_counter = client.session_counter + 1,
                                !.active_session_id = client.session_counter + 1,
                                !.transport = worker.sel,
                                !.degraded = FALSE,
                                !.state = "streaming",
                                !.inflight = <<>>,
                                !.target_hint = <<NoInt, NoInt>>]
    /\ worker' = [worker EXCEPT !.pc = "ss_loop", !.sel = None, !.hs_elapsed = 0,
                                !.hb_age = 0, !.sent_age = HEARTBEAT_INTERVAL_MS]
    /\ ghost' = [ghost EXCEPT !.streamed = TRUE, !.sess_streamed = TRUE, !.since_hb = 0]
    /\ UNCHANGED <<send_queue, host, net, sender, framing, shm, codec>>

\* client.py:345  while not self._stop_event.is_set()
run_session_loop ==
    /\ worker.pc = "ss_loop"
    /\ worker' = IF client.stop_event
                 THEN [worker EXCEPT !.pc = "wm_returned", !.hb_age = 0, !.sent_age = 0]
                 ELSE [worker EXCEPT !.pc = "ss_enabled"]
    /\ UNCHANGED <<client, send_queue, host, net, ghost, sender, framing, shm, codec>>

\* client.py:346-347  if not enable_connection: raise E_STOP_REQUESTED
run_session_check_enabled ==
    /\ worker.pc = "ss_enabled"
    /\ worker' = IF ~client.enabled
                 THEN Raise(worker, BridgeClientError(E_STOP_REQUESTED, "plain", "ss_disabled"))
                 ELSE [worker EXCEPT !.pc = "ss_flush"]
    /\ UNCHANGED <<client, send_queue, host, net, ghost, sender, framing, shm, codec>>

\* client.py:349 and _flush_send_queue (441-447): one turn of its loop
run_session_flush ==
    /\ worker.pc = "ss_flush"
    /\ IF send_queue = <<>>
       THEN /\ worker' = [worker EXCEPT !.pc = "ss_heartbeat"]
            /\ UNCHANGED <<send_queue, ghost, codec>>
       ELSE /\ send_queue' = Tail(send_queue)
            /\ \E outcome \in SendOutcomes(net) :
                 IF outcome = "ok"
                 THEN /\ worker' = worker
                      /\ ghost' = Written([ghost EXCEPT !.tx = <<Head(send_queue).tag,
                                                                client.session_counter>>],
                                          Head(send_queue))
                 ELSE /\ worker' = Raise(worker, BridgeClientError(E_SOCKET_IO, outcome, "flush"))
                      /\ ghost' = ghost
    /\ UNCHANGED <<client, host, net, sender, framing, shm, codec>>

\* client.py:350-353  the heartbeat, when the interval has elapsed
run_session_heartbeat ==
    /\ worker.pc = "ss_heartbeat"
    /\ IF worker.sent_age >= HEARTBEAT_INTERVAL_MS
       THEN \E outcome \in SendOutcomes(net) :
              IF outcome = "ok"
              THEN /\ worker' = [worker EXCEPT !.pc = "ss_read", !.sent_age = 0]
                   /\ ghost' = Written(ghost, Item("heartbeat", 0, -1, 0))
              ELSE /\ worker' = Raise(worker, BridgeClientError(E_SOCKET_IO, outcome, "heartbeat"))
                   /\ ghost' = ghost
       ELSE /\ worker' = [worker EXCEPT !.pc = "ss_read"]
            /\ ghost' = ghost
    /\ UNCHANGED <<client, send_queue, host, net, sender, framing, shm, codec>>

\* _try_read_incoming that takes an ack for a sign of life as well
handle_incoming_ack_refreshes(acc, m) ==
    CASE acc.exc # NoExc -> acc
      [] decode_fails(m) -> acc
      [] m.kind = "heartbeat" ->
           IF hint_raises(m.tw, m.th)
           THEN [acc EXCEPT !.hb = TRUE, !.exc = OtherException("hint")]
           ELSE [acc EXCEPT !.hb = TRUE,
                            !.c = update_stream_target_hint(acc.c, m.tw, m.th)]
      [] m.kind = "ack" ->
           IF m.fid > 0
           THEN [acc EXCEPT !.hb = TRUE, !.c = ack_inflight_frame(acc.c, m.fid)]
           ELSE [acc EXCEPT !.hb = TRUE]
      [] m.kind = "error" ->
           LET code == IF m.code = "" THEN E_PROTO_MISMATCH ELSE m.code
               text == IF m.text = "" THEN "plain" ELSE m.text
           IN [acc EXCEPT !.c = set_error(acc.c, code),
                          !.exc = BridgeClientError(code, text, "peer_error")]
      [] OTHER -> acc

\* client.py:378-403  the loop body of _try_read_incoming for one frame; acc is
\* [c: the client record, hb: a heartbeat was seen, exc: the exception raised]
handle_incoming(acc, m) ==
    CASE acc.exc # NoExc -> acc
      [] decode_fails(m) -> acc
      [] m.kind = "heartbeat" ->
           IF hint_raises(m.tw, m.th)
           THEN [acc EXCEPT !.hb = TRUE, !.exc = OtherException("hint")]
           ELSE [acc EXCEPT !.hb = TRUE,
                            !.c = update_stream_target_hint(acc.c, m.tw, m.th)]
      [] m.kind = "ack" ->
           IF m.fid > 0 THEN [acc EXCEPT !.c = ack_inflight_frame(acc.c, m.fid)] ELSE acc
      [] m.kind = "error" ->
           LET code == IF m.code = "" THEN E_PROTO_MISMATCH ELSE m.code
               text == IF m.text = "" THEN "plain" ELSE m.text
           IN [acc EXCEPT !.c = set_error(acc.c, code),
                          !.exc = BridgeClientError(code, text, "peer_error")]
      [] OTHER -> acc

RECURSIVE handle_frames(_, _)
handle_frames(acc, frames) ==
    IF frames = <<>> THEN acc
    ELSE handle_frames(handle_incoming(acc, Head(frames)), Tail(frames))

\* client.py _try_read_incoming (361-404) on the chunk sock.recv returned
try_read_incoming(c, chunk) ==
    IF push_bytes_fails(chunk)
    THEN [c |-> c, hb |-> FALSE, exc |-> FrameError(E_MSG_TOO_LARGE, "push_bytes")]
    ELSE handle_frames([c |-> c, hb |-> FALSE, exc |-> NoExc], chunk)

\* a heartbeat of the chunk was handled before anything was raised
HeartbeatHandled(chunk) ==
    /\ ~push_bytes_fails(chunk)
    /\ \E i \in 1..Len(chunk) :
         /\ chunk[i].kind = "heartbeat"
         /\ \A j \in 1..(i - 1) : chunk[j].kind # "error"

\* the history after _try_read_incoming: the ids it took out of the inflight set
Acked(g, before, after) ==
    IF g.acking
    THEN [g EXCEPT !.acked = {before[i] : i \in 1..Len(before)}
                                \ {after[i] : i \in 1..Len(after)}]
    ELSE g

\* client.py:355  last_peer_heartbeat = self._try_read_incoming(...)
run_session_read ==
    /\ worker.pc = "ss_read"
    /\ IF net.conn # "open"
       THEN /\ worker' = Raise(worker, BridgeClientError(E_SOCKET_IO, CLOSED_SOCKET_TEXT, "ss_recv"))
            /\ UNCHANGED <<client, net, ghost, codec>>
       ELSE IF net.peer = "rst"
       THEN /\ \E text \in OsErrorTexts :
                 worker' = Raise(worker, BridgeClientError(E_SOCKET_IO, text, "ss_recv"))
            /\ UNCHANGED <<client, net, ghost, codec>>
       ELSE IF net.inbox # <<>>
       THEN \E k \in 1..Len(net.inbox) :
              LET chunk == SubSeq(net.inbox, 1, k)
                  res == try_read_incoming(client, chunk)
              IN /\ net' = [net EXCEPT !.inbox = SubSeq(net.inbox, k + 1, Len(net.inbox))]
                 /\ client' = res.c
                 /\ ghost' = Acked(IF HeartbeatHandled(chunk)
                                   THEN [ghost EXCEPT !.since_hb = 0] ELSE ghost,
                                   client.inflight, res.c.inflight)
                 /\ worker' = IF res.exc # NoExc THEN Raise(worker, res.exc)
                              ELSE [worker EXCEPT !.pc = "ss_hb_check",
                                      !.hb_age = IF res.hb THEN 0 ELSE worker.hb_age]
       ELSE IF net.peer = "fin"
       THEN /\ worker' = Raise(worker, BridgeClientError(E_SOCKET_IO, PEER_CLOSED_TEXT, "ss_closed"))
            /\ UNCHANGED <<client, net, ghost, codec>>
       ELSE /\ worker' = [worker EXCEPT !.pc = "ss_hb_check"]
            /\ UNCHANGED <<client, net, ghost, codec>>
    /\ UNCHANGED <<send_queue, host, sender, framing, shm, codec>>

\* client.py:356  (time.monotonic() - last_peer_heartbeat) > HEARTBEAT_TIMEOUT_MS / 1000.0
heartbeat_timed_out(age) == age > HEARTBEAT_TIMEOUT_MS

\* client.py:356-359  the heartbeat timeout, then time.sleep(0.01)
run_session_hb_check ==
    /\ worker.pc = "ss_hb_check"
    /\ worker' = IF heartbeat_timed_out(worker.hb_age)
                 THEN Raise(worker, BridgeClientError(E_HEARTBEAT_TIMEOUT, "plain", "hb_timeout"))
                 ELSE [worker EXCEPT !.pc = "ss_loop"]
    /\ UNCHANGED <<client, send_queue, host, net, ghost, sender, framing, shm, codec>>

StreamingPcs == {"ss_loop", "ss_enabled", "ss_flush", "ss_heartbeat", "ss_read", "ss_hb_check"}

\* a timer of the worker is still below the limit the code compares it with
TimerRunning ==
    IF worker.pc = "rs_read_ack" THEN worker.hs_elapsed < HEARTBEAT_TIMEOUT_MS
    ELSE IF worker.pc \in StreamingPcs
         THEN ~(worker.hb_age > HEARTBEAT_TIMEOUT_MS
                /\ worker.sent_age >= HEARTBEAT_INTERVAL_MS)
         ELSE FALSE

\* time.monotonic() advances by TickMs while the worker waits for the hello_ack
\* or runs the duty cycle; a timer that is past its limit is not counted further
Tick ==
    /\ TimerRunning
    /\ worker' = IF worker.pc = "rs_read_ack"
                 THEN [worker EXCEPT !.hs_elapsed = worker.hs_elapsed + TickMs]
                 ELSE [worker EXCEPT
                         !.hb_age = IF worker.hb_age <= HEARTBEAT_TIMEOUT_MS
                                    THEN worker.hb_age + TickMs ELSE worker.hb_age,
                         !.sent_age = IF worker.sent_age < HEARTBEAT_INTERVAL_MS
                                      THEN worker.sent_age + TickMs ELSE worker.sent_age]
    /\ ghost' = IF worker.pc \in StreamingPcs /\ ghost.since_hb <= HEARTBEAT_TIMEOUT_MS
                THEN [ghost EXCEPT !.since_hb = ghost.since_hb + TickMs] ELSE ghost
    /\ UNCHANGED <<client, send_queue, host, net, sender, framing, shm, codec>>

----------------------------------------------------------------------------
(* The peer behind the connection *)

\* the peer writes one control frame
PeerSend(m) ==
    /\ net.conn = "open"
    /\ net.peer = "open"
    /\ Len(net.inbox) < MaxInbox
    /\ net' = [net EXCEPT !.inbox = Append(net.inbox, m)]
    /\ UNCHANGED <<client, send_queue, worker, host, ghost, sender, framing, shm, codec>>

\* the peer closes the connection: cleanly ("fin": what it sent stays readable,
\* then recv returns no bytes) or by a reset ("rst": recv fails with an OSError)
PeerClose(how) ==
    /\ net.conn = "open"
    /\ net.peer = "open"
    /\ net' = [net EXCEPT !.peer = how,
                          !.inbox = IF how = "rst" THEN <<>> ELSE net.inbox]
    /\ UNCHANGED <<client, send_queue, worker, host, ghost, sender, framing, shm, codec>>

----------------------------------------------------------------------------
(* The host thread: the public calls of BridgeClient *)

\* ports the host configures
Ports == {MIN_PORT - 1, DEFAULT_PORT}

\* _validate_port that refuses the two ends of the range
validate_port_exclusive(port) == MIN_PORT < port /\ port < MAX_PORT

\* client.py _validate_port
validate_port(port) == MIN_PORT <= port /\ port <= MAX_PORT

\* the worker thread object exists and is_alive()
WorkerAlive == client.worker_thread /\ worker.pc # "dead"

\* a thread that outlived the join of _stop_worker: it runs, the client holds no
\* handle of it.  The model has one worker; the host does not connect meanwhile.
Orphan == ~client.worker_thread /\ worker.pc # "dead"

\* the host thread returns from its call: the locals of the call are dead
Return(h) == InitHost

\* client.py:121-122, 136, 143  what configure returns
configure_result(port) == validate_port(port)

\* client.py:120-136  configure, up to the end of its first locked block
configure(port, enable_connection) ==
    /\ host.pc = "idle"
    /\ enable_connection => ~Orphan
    /\ IF ~validate_port(port)
       THEN /\ client' = set_error(client, E_PORT_INVALID)
            /\ host' = host
       ELSE /\ client' = IF enable_connection
                         THEN [client EXCEPT !.port = port, !.enabled = TRUE]
                         ELSE [client EXCEPT !.port = port, !.enabled = FALSE,
                                             !.state = "disabled", !.transport = None,
                                             !.degraded = FALSE,
                                             !.active_session_id = NoInt,
                                             !.inflight = <<>>]
            /\ host' = [host EXCEPT !.pc = IF enable_connection THEN "cfg_ensure"
                                           ELSE "sw_set",
                                    !.then = "idle"]
    /\ UNCHANGED <<send_queue, worker, net, sender, ghost, framing, shm, codec>>

\* client.py _ensure_worker (221-230) on the client record
ensure_worker_client(c) ==
    IF c.worker_thread /\ worker.pc # "dead" THEN c
    ELSE [c EXCEPT !.stop_event = FALSE, !.worker_thread = TRUE]

\* client.py _ensure_worker: the thread it starts, at the top of _worker_main (241)
ensure_worker_thread(c) ==
    IF c.worker_thread /\ worker.pc # "dead" THEN worker
    ELSE [InitWorker EXCEPT !.pc = "wm_loop", !.backoff_index = 0]

\* the history of a worker starts with its thread
ensure_worker_ghost(c) ==
    IF c.worker_thread /\ worker.pc # "dead" THEN ghost
    ELSE [ghost EXCEPT !.fails = 0, !.streamed = FALSE, !.sess_streamed = FALSE]

\* client.py:138  self._ensure_worker()
configure_ensure_worker ==
    /\ host.pc = "cfg_ensure"
    /\ ~Orphan
    /\ client' = ensure_worker_client(client)
    /\ worker' = ensure_worker_thread(client)
    /\ ghost' = ensure_worker_ghost(client)
    /\ host' = [host EXCEPT !.pc = "rc_lock"]
    /\ UNCHANGED <<send_queue, net, sender, framing, shm, codec>>

\* client.py:146-149  the locked block of request_connect
request_connect_client(c) ==
    [c EXCEPT !.enabled = TRUE,
              !.state = IF c.state = "disabled" THEN "listening" ELSE c.state]

\* client.py:139-141  if self._state == "disabled": self._state = "listening"
configure_listening(c) ==
    IF c.state = "disabled" THEN [c EXCEPT !.state = "listening"] ELSE c

\* client.py:139-142  the second locked block of configure, then the one of the
\* request_connect it calls (the second finds what the first left)
configure_request_connect ==
    /\ host.pc = "rc_lock"
    /\ client' = request_connect_client(configure_listening(client))
    /\ host' = [host EXCEPT !.pc = "rc_ensure"]
    /\ UNCHANGED <<send_queue, worker, net, sender, ghost, framing, shm, codec>>

\* client.py:145-149  request_connect called by the host
request_connect ==
    /\ host.pc = "idle"
    /\ ~Orphan
    /\ client' = request_connect_client(client)
    /\ host' = [host EXCEPT !.pc = "rc_ensure"]
    /\ UNCHANGED <<send_queue, worker, net, sender, ghost, framing, shm, codec>>

\* client.py:150  self._ensure_worker()
request_connect_ensure_worker ==
    /\ host.pc = "rc_ensure"
    /\ ~Orphan
    /\ client' = ensure_worker_client(client)
    /\ worker' = ensure_worker_thread(client)
    /\ ghost' = ensure_worker_ghost(client)
    /\ host' = Return(host)
    /\ UNCHANGED <<send_queue, net, sender, framing, shm, codec>>

\* client.py:153-162  the locked block of disable_connection
disable_connection_client(c) ==
    [c EXCEPT !.enabled = FALSE, !.state = "disabled", !.transport = None,
              !.degraded = FALSE, !.active_session_id = NoInt, !.inflight = <<>>,
              !.target_hint = <<NoInt, NoInt>>, !.last_error = None]

\* client.py:152-163  disable_connection (then = "idle"), and shutdown
\* (165-167, then = "sd_clear"), up to _stop_worker
disable_connection(then) ==
    /\ host.pc = "idle"
    /\ client' = disable_connection_client(client)
    /\ host' = [host EXCEPT !.pc = "sw_set", !.then = then]
    /\ UNCHANGED <<send_queue, worker, net, sender, ghost, framing, shm, codec>>

\* client.py:233  self._stop_event.set()
stop_worker_set ==
    /\ host.pc = "sw_set"
    /\ client' = [client EXCEPT !.stop_event = TRUE]
    /\ host' = [host EXCEPT !.pc = "sw_close"]
    /\ UNCHANGED <<send_queue, worker, net, sender, ghost, framing, shm, codec>>

\* client.py:234  self._close_socket()
stop_worker_close ==
    /\ host.pc = "sw_close"
    /\ client' = close_socket_client(client)
    /\ net' = close_socket_net(client, net)
    /\ host' = [host EXCEPT !.pc = "sw_join"]
    /\ UNCHANGED <<send_queue, worker, sender, ghost, framing, shm, codec>>

\* client.py:235-238  join(timeout=2.0) returns when the thread has ended or the
\* two seconds are over, whichever is first; then the handle and the event are reset
stop_worker_join ==
    /\ host.pc = "sw_join"
    /\ client' = [client EXCEPT !.worker_thread = FALSE, !.stop_event = FALSE]
    /\ host' = IF host.then = "idle" THEN Return(host)
               ELSE [host EXCEPT !.pc = host.then, !.then = "idle"]
    /\ UNCHANGED <<send_queue, worker, net, sender, ghost, framing, shm, codec>>

\* client.py:167  shutdown: self._clear_send_queue()
shutdown_clear ==
    /\ host.pc = "sd_clear"
    /\ send_queue' = clear_send_queue(send_queue)
    /\ host' = Return(host)
    /\ UNCHANGED <<client, worker, net, sender, ghost, framing, shm, codec>>

\* the session id get_status() shows while the state is streaming, else 0
StatusSession == IF client.state = "streaming" THEN client.active_session_id ELSE 0

\* the buffer with the tag of the moment it is put
Tagged(item) == [item EXCEPT !.tag = IF ghost.tagging THEN StatusSession ELSE 0]

\* the host thread has put the buffer and goes on at cont
PutDone(h, item, cont) ==
    IF cont = "idle" THEN Return(h)
    ELSE [h EXCEPT !.pc = cont, !.item = NoItem, !.cont = "idle",
                   !.log = Append(h.log, item)]

\* client.py:190-195  _enqueue_frame_bytes: the first put_nowait
put_nowait(h, item, cont) ==
    /\ send_queue' = IF Len(send_queue) < client.maxsize
                     THEN Append(send_queue, Tagged(item)) ELSE send_queue
    /\ host' = IF Len(send_queue) < client.maxsize
               THEN PutDone(h, Tagged(item), cont)
               ELSE [h EXCEPT !.pc = "enq_get", !.item = item, !.cont = cont]

\* client.py:169-172  enqueue_control_message(message, frame_id)
enqueue_control_message(kind, fid) ==
    /\ host.pc = "idle"
    /\ put_nowait([host EXCEPT !.fid = fid], Item(kind, fid, -1, 0),
                  IF fid # 0 THEN "enq_register" ELSE "idle")
    /\ UNCHANGED <<client, worker, net, sender, ghost, framing, shm, codec>>

\* client.py:176-188  enqueue_binary_chunk(payload, frame_id): the frame id is
\* not registered
enqueue_binary_chunk(fid) ==
    /\ host.pc = "idle"
    /\ put_nowait(host, Item("chunk", fid, -1, 0), "idle")
    /\ UNCHANGED <<client, worker, net, sender, ghost, framing, shm, codec>>

\* the get_nowait of _enqueue_frame_bytes taking the newest buffer
enqueue_drop_newest ==
    /\ host.pc = "enq_get"
    /\ send_queue' = IF send_queue = <<>> THEN send_queue
                     ELSE SubSeq(send_queue, 1, Len(send_queue) - 1)
    /\ host' = [host EXCEPT !.pc = "enq_put"]
    /\ UNCHANGED <<client, worker, net, sender, ghost, framing, shm, codec>>

\* client.py:197-200  the queue was full: drop the oldest buffer
enqueue_drop_oldest ==
    /\ host.pc = "enq_get"
    /\ send_queue' = IF send_queue = <<>> THEN send_queue ELSE Tail(send_queue)
    /\ host' = [host EXCEPT !.pc = "enq_put"]
    /\ UNCHANGED <<client, worker, net, sender, ghost, framing, shm, codec>>

\* client.py:202-205  the second put_nowait; still full: E_SOCKET_IO, message dropped
enqueue_retry ==
    /\ host.pc = "enq_put"
    /\ IF Len(send_queue) < client.maxsize
       THEN /\ send_queue' = Append(send_queue, Tagged(host.item))
            /\ client' = client
            /\ host' = PutDone(host, Tagged(host.item), host.cont)
       ELSE /\ send_queue' = send_queue
            /\ client' = set_error(client, E_SOCKET_IO)
            /\ host' = IF host.cont = "idle" THEN Return(host)
                       ELSE [host EXCEPT !.pc = host.cont, !.item = NoItem,
                                         !.cont = "idle"]
    /\ UNCHANGED <<worker, net, sender, ghost, framing, shm, codec>>

\* client.py:173-174  self._register_inflight_frame(frame_id)
enqueue_register ==
    /\ host.pc = "enq_register"
    /\ client' = register_inflight_frame(client, host.fid)
    /\ host' = Return(host)
    /\ ghost' = IF ghost.logging /\ Len(client.inflight) >= MAX_INFLIGHT_FRAMES
                THEN [ghost EXCEPT !.dropped = Head(client.inflight)] ELSE ghost
    /\ UNCHANGED <<send_queue, worker, net, sender, framing, shm, codec>>

----------------------------------------------------------------------------
(* The host thread: FrameSender (frame_sender.py) *)

DEFAULT_RING_SLOTS == 4

MaxFrames == 2          \* frames the sender produces per run

\* width, height and len(pixels) of the frames the host sends
FrameArgs == {<<4, 4, 64>>, <<4, 4, 63>>, <<0, 4, 64>>}

----------------------------------------------------------------------------
(* shm_ring.py and the rings of FrameSender (frame_sender.py:165-240)      *)

SHM_HEADER_BYTES == 24
RETIRED_RING_TTL_SEC == 2

\* exceptions of the ring's calls
ValueError(site) == Exc("ValueError", "", "", site)
RuntimeError(site) == Exc("RuntimeError", "", "", site)
IndexError(site) == Exc("IndexError", "", "", site)
FileNotFoundError(site) == Exc("FileNotFoundError", "", "", site)
OSError(site) == Exc("OSError", "", "", site)

\* shm_ring.py:152-153  default_ring_name: the port and the slot size, in digits
default_ring_name(port, slot_size) == <<"sutu_bridge_v2", port, slot_size>>

\* the segment the name is linked to (0: none)
LinkedSeg(s, name) ==
    IF \E i \in 1..Len(s.segs) : s.segs[i].name = name /\ s.segs[i].linked
    THEN CHOOSE i \in 1..Len(s.segs) : s.segs[i].name = name /\ s.segs[i].linked
    ELSE 0

\* shm_ring.py:24-58  SharedMemoryRing(name, slot_count, slot_size, create): the
\* new ring is the last of rings; exc is what the constructor raised
SharedMemoryRing(s, name, slot_count, slot_size, create) ==
    LET found == LinkedSeg(s, name)
        total_size == slot_count * slot_size
        ring(seg, owner) ==
            [name |-> name, slot_count |-> slot_count, slot_size |-> slot_size,
             seg |-> seg, owner |-> owner, next_slot |-> 0, closed |-> FALSE,
             slot_seq |-> [i \in 0..(slot_count - 1) |-> 0], calls |-> 0]
        segment ==
            [name |-> name, linked |-> TRUE, size |-> total_size,
             slots |-> [i \in 0..(slot_count - 1) |-> SlotZero]]
    IN IF slot_count <= 0 \/ slot_size <= SHM_HEADER_BYTES
       THEN [s EXCEPT !.exc = ValueError("init")]
       ELSE IF found = 0
       THEN IF create /\ s.no_space
            THEN [s EXCEPT !.exc = OSError("init")]
            ELSE IF create
            THEN [s EXCEPT !.segs = Append(@, segment),
                           !.rings = Append(@, ring(Len(s.segs) + 1, TRUE)),
                           !.exc = NoExc]
            ELSE [s EXCEPT !.exc = FileNotFoundError("init")]
       ELSE IF create /\ s.segs[found].size < total_size
       THEN [s EXCEPT !.exc = ValueError("init_size")]
       ELSE [s EXCEPT !.rings = Append(@, ring(found, FALSE)), !.exc = NoExc]

\* close that unlinks whether or not the ring owns the segment
ring_close_unlinks_always(s, r, unlink) ==
    IF s.rings[r].closed THEN s
    ELSE LET named == LinkedSeg(s, s.rings[r].name)
         IN [s EXCEPT !.rings[r].closed = TRUE,
                      !.segs = IF unlink /\ named # 0
                               THEN [@ EXCEPT ![named].linked = FALSE] ELSE @]

\* shm_ring.py:134-145  close(unlink) of ring r; unlink() removes the name
ring_close(s, r, unlink) ==
    IF s.rings[r].closed THEN s
    ELSE LET named == LinkedSeg(s, s.rings[r].name)
         IN [s EXCEPT !.rings[r].closed = TRUE,
                      !.segs = IF unlink /\ s.rings[r].owner /\ named # 0
                               THEN [@ EXCEPT ![named].linked = FALSE] ELSE @]

RECURSIVE close_retired(_, _)
\* frame_sender.py:205-209, 236-239  retired.ring.close(unlink=True) for each
close_retired(s, retired) ==
    IF retired = <<>> THEN s
    ELSE close_retired(ring_close(s, Head(retired).ring, TRUE), Tail(retired))

\* _cleanup_retired_rings that closes every retired ring at once
cleanup_retired_rings_eager(s) ==
    [close_retired(s, s.retired_rings) EXCEPT !.retired_rings = <<>>]

\* frame_sender.py:227-240  _cleanup_retired_rings
cleanup_retired_rings(s) ==
    LET keep == SelectSeq(s.retired_rings, LAMBDA x : s.now < x.expires_at)
        expired == SelectSeq(s.retired_rings, LAMBDA x : ~(s.now < x.expires_at))
    IN [close_retired(s, expired) EXCEPT !.retired_rings = keep]

\* frame_sender.py:212-225  _retire_active_ring
retire_active_ring(s) ==
    IF s.shm_ring = 0 THEN s
    ELSE [s EXCEPT
            !.retired_rings =
                Append(@, [ring |-> s.shm_ring,
                           expires_at |-> s.now + RETIRED_RING_TTL_SEC,
                           name |-> IF s.last_ring_name # None THEN s.last_ring_name
                                    ELSE s.rings[s.shm_ring].name]),
            !.shm_ring = 0, !.last_ring_name = None, !.last_ring_size = NoInt]

\* _close_shm_ring that leaves the retired rings to their expiry
close_shm_ring_active_only(s) ==
    IF s.shm_ring = 0 THEN s
    ELSE [ring_close(s, s.shm_ring, TRUE) EXCEPT
            !.shm_ring = 0, !.last_ring_name = None, !.last_ring_size = NoInt]

\* frame_sender.py:194-210  _close_shm_ring
close_shm_ring(s) ==
    LET s1 == IF s.shm_ring = 0 THEN s
              ELSE [ring_close(s, s.shm_ring, TRUE) EXCEPT
                      !.shm_ring = 0, !.last_ring_name = None,
                      !.last_ring_size = NoInt]
    IN [close_retired(s1, s1.retired_rings) EXCEPT !.retired_rings = <<>>]

\* frame_sender.py:172-191  _write_frame_to_shm up to write_next: the ring the
\* frame is written to is shm_ring
ring_for_frame(s, port, required_len) ==
    LET s1 == cleanup_retired_rings(s)
        slot_size == SHM_HEADER_BYTES + required_len
        ring_name == default_ring_name(port, slot_size)
    IN IF s1.shm_ring = 0 \/ s1.last_ring_name # ring_name
          \/ s1.last_ring_size # slot_size
       THEN LET s2 == SharedMemoryRing(retire_active_ring(s1), ring_name,
                                       DEFAULT_RING_SLOTS, slot_size, TRUE)
            IN IF s2.exc # NoExc THEN s2
               ELSE [s2 EXCEPT !.shm_ring = Len(s2.rings),
                               !.last_ring_name = ring_name,
                               !.last_ring_size = slot_size]
       ELSE [s1 EXCEPT !.exc = NoExc]

\* shm_ring.py:87-100  write_slot up to its stores: _assert_open, the index
\* and size checks, the two seqs (the masks with _U32_MAX leave the small
\* values of the runs as they are)
write_slot(s, r, slot_index, payload_len, frame_id, timestamp_ms) ==
    LET ring == s.rings[r] IN
    IF ring.closed THEN [s EXCEPT !.exc = RuntimeError("write_slot")]
    ELSE IF slot_index < 0 \/ slot_index >= ring.slot_count
    THEN [s EXCEPT !.exc = IndexError("write_slot")]
    ELSE IF payload_len > ring.slot_size - SHM_HEADER_BYTES
    THEN [s EXCEPT !.exc = ValueError("write_slot")]
    ELSE LET committed_seq == IF ring.slot_seq[slot_index] % 2 = 1
                              THEN ring.slot_seq[slot_index] + 1
                              ELSE ring.slot_seq[slot_index]
         IN [s EXCEPT
               !.exc = NoExc,
               !.writer = [ring |-> r, slot |-> slot_index, len |-> payload_len,
                           fid |-> frame_id, ts |-> timestamp_ms,
                           writing_seq |-> committed_seq + 1,
                           next_committed_seq |-> committed_seq + 2,
                           cont |-> "idle", op |-> "write_slot"]]

\* the write_slot in progress is the one of a write_next
FromWriteNext(s) ==
    IF s.exc = NoExc THEN [s EXCEPT !.writer.op = "write_next"] ELSE s

\* write_next that always writes slot 0
write_next_first_slot(s, r, payload_len, frame_id, timestamp_ms) ==
    IF s.rings[r].closed THEN [s EXCEPT !.exc = RuntimeError("write_next")]
    ELSE FromWriteNext(write_slot([s EXCEPT !.rings[r].calls = @ + 1],
                                  r, 0, payload_len, frame_id, timestamp_ms))

\* shm_ring.py:111-116  write_next, up to the stores of its write_slot
write_next(s, r, payload_len, frame_id, timestamp_ms) ==
    LET ring == s.rings[r] IN
    IF ring.closed THEN [s EXCEPT !.exc = RuntimeError("write_next")]
    ELSE FromWriteNext(
             write_slot([s EXCEPT
                           !.rings[r].next_slot = (ring.next_slot + 1) % ring.slot_count,
                           !.rings[r].calls = @ + 1],
                        r, ring.next_slot, payload_len, frame_id, timestamp_ms))

\* shm_ring.py:118-126  read_slot: ret is the first half of the bytes it returns
read_slot(s, r, slot_index, byte_size) ==
    LET ring == s.rings[r] IN
    IF ring.closed THEN [s EXCEPT !.exc = RuntimeError("read_slot")]
    ELSE IF slot_index < 0 \/ slot_index >= ring.slot_count
    THEN [s EXCEPT !.exc = IndexError("read_slot")]
    ELSE IF byte_size < 0 \/ byte_size > ring.slot_size - SHM_HEADER_BYTES
    THEN [s EXCEPT !.exc = ValueError("read_slot")]
    ELSE [s EXCEPT !.exc = NoExc, !.ret = s.segs[ring.seg].slots[slot_index].p1]

----------------------------------------------------------------------------
(* FrameSender: the stream                                                 *)

\* frame_sender.py:59-62  start_stream: enqueue_control_message(build_start_stream())
start_stream ==
    /\ host.pc = "idle"
    /\ put_nowait(host, Item("start_stream", 0, -1, 0), "start_set")
    /\ UNCHANGED <<client, worker, net, sender, ghost, framing, shm, codec>>

\* frame_sender.py:63  self._streaming = True
start_stream_set ==
    /\ host.pc = "start_set"
    /\ sender' = [sender EXCEPT !.streaming = TRUE]
    /\ host' = Return(host)
    /\ UNCHANGED <<client, send_queue, worker, net, ghost, framing, shm, codec>>

\* frame_sender.py:65-67  stop_stream: the stop_stream message of a started stream
stop_stream ==
    /\ host.pc = "idle"
    /\ IF sender.streaming
       THEN put_nowait(host, Item("stop_stream", 0, -1, 0), "stop_set")
       ELSE /\ host' = [host EXCEPT !.pc = "stop_set"]
            /\ send_queue' = send_queue
    /\ UNCHANGED <<client, worker, net, sender, ghost, framing, shm, codec>>

\* frame_sender.py:68-69  self._streaming = False; self._close_shm_ring()
stop_stream_set ==
    /\ host.pc = "stop_set"
    /\ sender' = [sender EXCEPT !.streaming = FALSE, !.write_index = 0]
    /\ shm' = close_shm_ring(shm)
    /\ host' = Return(host)
    /\ UNCHANGED <<client, send_queue, worker, net, ghost, framing, codec>>

\* send_rgba_frame that takes its frame id before it checks its arguments
send_rgba_frame_counts_first(width, height, nbytes) ==
    /\ host.pc = "idle"
    /\ sender.frame_id < MaxFrames
    /\ LET required_len == width * 4 * height
           called == [host EXCEPT !.args = <<width, height, nbytes>>,
                                  !.fid = sender.frame_id + 1]
       IN /\ sender' = [sender EXCEPT !.frame_id = sender.frame_id + 1]
          /\ host' = IF ~sender.streaming \/ width <= 0 \/ height <= 0
                     THEN [called EXCEPT !.pc = "srf_return", !.result = 0]
                     ELSE IF nbytes < required_len
                     THEN [called EXCEPT !.pc = "srf_return", !.result = -1]
                     ELSE [called EXCEPT !.pc = "srf_transport",
                                         !.result = sender.frame_id + 1]
    /\ UNCHANGED <<client, send_queue, worker, net, ghost, framing, shm, codec>>

\* frame_sender.py:82-98  send_rgba_frame, up to the frame id
send_rgba_frame(width, height, nbytes) ==
    /\ host.pc = "idle"
    /\ sender.frame_id < MaxFrames
    /\ LET stride == width * 4
           required_len == stride * height
           called == [host EXCEPT
                        !.args = <<width, height, nbytes>>,
                        !.session = IF client.transport = BRIDGE_TRANSPORT_TCP_LZ4
                                    THEN StatusSession ELSE 0]
       IN IF ~sender.streaming \/ width <= 0 \/ height <= 0
          THEN /\ host' = [called EXCEPT !.pc = "srf_return", !.result = 0]
               /\ sender' = sender
          ELSE IF nbytes < required_len
          THEN /\ host' = [called EXCEPT !.pc = "srf_return", !.result = -1]
               /\ sender' = sender
          ELSE /\ host' = [called EXCEPT !.pc = "srf_transport",
                                         !.fid = sender.frame_id + 1,
                                         !.result = sender.frame_id + 1]
               /\ sender' = [sender EXCEPT !.frame_id = sender.frame_id + 1]
    /\ UNCHANGED <<client, send_queue, worker, net, ghost, framing, shm, codec>>

\* frame_sender.py:100  transport = self._client.selected_transport or tcp_lz4
send_rgba_frame_transport ==
    /\ host.pc = "srf_transport"
    /\ host' = [host EXCEPT !.pc = "srf_meta",
                            !.transport = IF client.transport = None
                                          THEN BRIDGE_TRANSPORT_TCP_LZ4
                                          ELSE client.transport]
    /\ UNCHANGED <<client, send_queue, worker, net, sender, ghost, framing, shm, codec>>

\* frame_sender.py:114-132 (shm: the ring's write_next gives the slot) and
\* 135-161 (tcp_lz4): enqueue_control_message(build_frame_meta(...))
send_rgba_frame_meta ==
    /\ host.pc = "srf_meta"
    /\ IF host.transport = BRIDGE_TRANSPORT_SHM
       THEN /\ put_nowait(host, Item("frame_meta", host.fid, sender.write_index, 0),
                          "srf_return")
            /\ sender' = [sender EXCEPT
                            !.write_index = (sender.write_index + 1) % DEFAULT_RING_SLOTS]
       ELSE /\ put_nowait(host, Item("frame_meta", host.fid, -1, 0), "srf_chunk")
            /\ sender' = sender
    /\ UNCHANGED <<client, worker, net, ghost, framing, shm, codec>>

\* send_rgba_frame that returns without the binary chunk
send_rgba_frame_chunk_skipped ==
    /\ host.pc = "srf_chunk"
    /\ host' = [host EXCEPT !.pc = "srf_return"]
    /\ UNCHANGED <<client, send_queue, worker, net, sender, ghost, framing, shm, codec>>

\* frame_sender.py:162  self._client.enqueue_binary_chunk(compressed, frame_id=frame_id)
send_rgba_frame_chunk ==
    /\ host.pc = "srf_chunk"
    /\ put_nowait(host, Item("chunk", host.fid, -1, 0), "srf_return")
    /\ UNCHANGED <<client, worker, net, sender, ghost, framing, shm, codec>>

\* frame_sender.py:84, 86, 91, 133, 163  send_rgba_frame returns
send_rgba_frame_return ==
    /\ host.pc = "srf_return"
    /\ host' = Return(host)
    /\ UNCHANGED <<client, send_queue, worker, net, sender, ghost, framing, shm, codec>>

----------------------------------------------------------------------------
(* The steps of the threads, grouped *)

\* _worker_main while the connection is enabled and no session gets through
WorkerLoop ==
    \/ worker_main_loop \/ worker_main_snapshot \/ worker_main_listening
    \/ worker_main_except \/ worker_main_exc_stop \/ worker_main_exc_cfg
    \/ worker_main_exc_record
    \/ worker_main_finally_close \/ worker_main_finally_clear
    \/ worker_main_after_stop \/ worker_main_after_cfg
    \/ worker_main_recovering \/ worker_main_backoff
    \/ run_session_handshaking \/ run_session_connect

\* _run_session once it is connected
WorkerSession ==
    \/ run_session_set_socket \/ run_session_clear_error \/ run_session_send_hello
    \/ run_session_read_ack \/ run_session_streaming
    \/ run_session_loop \/ run_session_check_enabled \/ run_session_flush
    \/ run_session_heartbeat \/ run_session_read \/ run_session_hb_check

\* _worker_main when the host disables the connection or stops the worker
WorkerStop ==
    \/ worker_main_disabled \/ worker_main_idle \/ worker_main_returned
    \/ worker_main_exit

\* the host enables the connection on the default port
HostEnable ==
    \/ configure(DEFAULT_PORT, TRUE)
    \/ configure_ensure_worker \/ configure_request_connect
    \/ request_connect_ensure_worker

\* the host disables the connection or shuts the client down
HostDisable ==
    \/ \E then \in {"idle", "sd_clear"} : disable_connection(then)
    \/ stop_worker_set \/ stop_worker_close \/ stop_worker_join \/ shutdown_clear

\* the steps of _enqueue_frame_bytes after a put_nowait on a full queue
HostEnqueueFull == enqueue_drop_oldest \/ enqueue_retry

\* the hello_ack of a peer that accepts the session on tcp_lz4
HelloAckTcp == Msg("hello_ack", TRUE, BRIDGE_TRANSPORT_TCP_LZ4, "", "", 0, 0, 0)

----------------------------------------------------------------------------
(* The client under every host call: configure, request_connect,           *)
(* disable_connection, shutdown and enqueue_control_message with a frame   *)
(* id race with the worker; the peer accepts, sends a heartbeat with a     *)
(* size hint, an ack or an error, or closes.                               *)

HostNext ==
    \/ \E port \in Ports, enable \in BOOLEAN : configure(port, enable)
    \/ configure_ensure_worker \/ configure_request_connect
    \/ request_connect \/ request_connect_ensure_worker
    \/ HostDisable
    \/ \E fid \in 1..MaxFrameId : enqueue_control_message("ctl", fid)
    \/ HostEnqueueFull \/ enqueue_register

PeerNext ==
    \/ PeerSend(HelloAckTcp)
    \/ PeerSend(Msg("heartbeat", FALSE, None, "", "", 0, 4, 4))
    \/ PeerSend(Msg("ack", FALSE, None, "", "", 1, 0, 0))
    \/ PeerSend(Msg("error", FALSE, None, "E_PEER", "plain", 0, 0, 0))
    \/ PeerClose("fin")

Next == WorkerLoop \/ WorkerSession \/ WorkerStop \/ HostNext \/ PeerNext

Spec == Init /\ [][Next]_vars

(* Claims on the client under every host call *)

----------------------------------------------------------------------------
(* The handshake: the host enables the connection; the peer, when it       *)
(* accepts the connection, sends any message before the handshake is over  *)
(* and none after it, or closes; connects are refused or time out at will; *)
(* the clock runs.                                                          *)

HandshakePcs == {"rs_set_socket", "rs_clear_error", "rs_hello", "rs_read_ack"}

\* what the peer sends in the handshake: every hello_ack, a heartbeat, an ack,
\* an error, and the frames that are no control message the client knows
HandshakeMsgs ==
    HelloAckMsgs \cup OtherMsgs \cup
    {Msg("heartbeat", FALSE, None, "", "", 0, 4, 4),
     Msg("ack", FALSE, None, "", "", 1, 0, 0),
     Msg("error", FALSE, None, "E_PEER", "plain", 0, 0, 0)}

\* the failed sessions of the worker are counted
InitCounting ==
    /\ client = InitClient
    /\ send_queue = <<>>
    /\ worker = InitWorker
    /\ host = InitHost
    /\ net = InitNet
    /\ sender = InitSender
    /\ framing = InitFraming
    /\ shm = InitShm
    /\ codec = InitCodec
    /\ ghost = [InitGhost EXCEPT !.counting = TRUE]

\* the peer writes a control frame while the worker is in the handshake
PeerSendHandshake(m) ==
    /\ worker.pc \in HandshakePcs
    /\ PeerSend(m)

NextHandshake ==
    \/ WorkerLoop \/ WorkerSession \/ HostEnable
    \/ \E m \in HandshakeMsgs : PeerSendHandshake(m)
    \/ PeerClose("fin")
    \/ Tick

SpecHandshake == InitCounting /\ [][NextHandshake]_vars

(* Claims on the handshake and on the backoff *)

\* the selectedTransport values that decode to shm or tcp_lz4
RecognizedWire == {"shm", "Shared-Memory", "int0", "tcp_lz4", "int1"}

\* the first control message is a hello_ack that accepts on a recognized transport
FirstIsAccept ==
    /\ ghost.first_msg.kind = "hello_ack"
    /\ ghost.first_msg.accepted
    /\ ghost.first_msg.transport \in RecognizedWire

\* the handshake has ended in one of the outcomes of C1: a first control message
\* that is not such a hello_ack, or the deadline
HandshakeRefused ==
    /\ ~ghost.sess_streamed
    /\ \/ ghost.first_msg # NoMsg /\ ~FirstIsAccept
       \/ worker.hs_elapsed >= 5000

\* C1: the state is streaming only after the hello was sent and the first
\* control message was a hello_ack with accepted true and selectedTransport shm
\* or tcp_lz4; a rejected ack, an unrecognized transport, a first message of
\* another type and the expiry of the deadline raise E_PROTO_MISMATCH, streaming
\* is not entered, the socket is closed and E_PROTO_MISMATCH is the last error
\* of the wait in recovering.
C1_Handshake ==
    /\ client.state = "streaming" =>
          /\ net.hello_seen
          /\ FirstIsAccept
          /\ client.transport \in {"shm", "tcp_lz4"}
    /\ HandshakeRefused => client.state # "streaming"
    /\ HandshakeRefused /\ worker.pc = "wm_except" =>
          worker.exc.code = "E_PROTO_MISMATCH"
    /\ HandshakeRefused /\ worker.pc = "wm_backoff" =>
          /\ client.last_error = "E_PROTO_MISMATCH"
          /\ client.state = "recovering"
          /\ ~client.socket
          /\ net.conn # "open"

\* after a session that streamed, a hello_ack that rejects has failed the next
C1_Witness ==
    /\ worker.pc = "wm_backoff"
    /\ ghost.first_msg.kind = "hello_ack"
    /\ ~ghost.first_msg.accepted
    /\ client.last_error = "E_PROTO_MISMATCH"
    /\ client.session_counter = 1

\* the delay of the n-th failure in a row: 0.5, 1, 2, 5, 5, 5, ... seconds
ExpectedDelay(n) ==
    CASE n = 1 -> 500 [] n = 2 -> 1000 [] n = 3 -> 2000 [] OTHER -> 5000

C5_TierResetAfterStreaming ==
    worker.pc = "wm_backoff" /\ ghost.sess_streamed => worker.delay = 500

----------------------------------------------------------------------------
(* The send queue across sessions: the host enables the connection and a   *)
(* producer enqueues control messages; the peer accepts, sends an error or *)
(* closes; the buffers of the queue carry the session of their enqueue.    *)

InitTagged ==
    /\ client = InitClient
    /\ send_queue = <<>>
    /\ worker = InitWorker
    /\ host = InitHost
    /\ net = InitNet
    /\ sender = InitSender
    /\ framing = InitFraming
    /\ shm = InitShm
    /\ codec = InitCodec
    /\ ghost = [InitGhost EXCEPT !.tagging = TRUE]

NextBleed ==
    \/ WorkerLoop \/ WorkerSession \/ HostEnable
    \/ enqueue_control_message("ctl", 0) \/ HostEnqueueFull
    \/ PeerSend(HelloAckTcp)
    \/ PeerSend(Msg("error", FALSE, None, "E_PEER", "plain", 0, 0, 0))
    \/ PeerClose("fin")

SpecBleed == InitTagged /\ [][NextBleed]_vars

\* C3: a buffer enqueued while the status showed streaming with session id k
\* is written to no socket but the one of session k.
C3_NoCrossSessionBleed ==
    ghost.tx[1] # 0 => ghost.tx[1] = ghost.tx[2]

----------------------------------------------------------------------------
(* No listener: the host enables the connection on the default port and    *)
(* every connect is refused or times out.  The worker thread is scheduled  *)
(* again and again; the host may stop calling.                             *)

InitNoListener ==
    /\ client = InitClient
    /\ send_queue = <<>>
    /\ worker = InitWorker
    /\ host = InitHost
    /\ net = [InitNet EXCEPT !.listener = FALSE]
    /\ sender = InitSender
    /\ framing = InitFraming
    /\ shm = InitShm
    /\ codec = InitCodec
    /\ ghost = [InitGhost EXCEPT !.counting = TRUE]

NextNoListener == WorkerLoop \/ HostEnable

SpecNoListener ==
    InitNoListener /\ [][NextNoListener]_vars /\ WF_vars(WorkerLoop)

\* the state goes from a to b in this step
Edge(a, b) == client.state = a /\ client'.state = b

\* C6 as stated: the state follows disabled -> listening -> recovering ->
\* listening -> ...
C6_ListeningRecovering ==
    [][client'.state # client.state =>
          \/ Edge("disabled", "listening")
          \/ Edge("listening", "recovering")
          \/ Edge("recovering", "listening")]_vars

\* C6 amended: the state follows disabled -> listening -> handshaking ->
\* recovering -> listening -> handshaking -> ...; it is never streaming; once
\* the worker runs, the state is recovering again and again and listening
\* again after each recovering (the worker does not give up); the last error
\* is E_SOCKET_IO whenever the state is recovering and stays so.
C6_NoListener ==
    /\ [][client'.state # client.state =>
            \/ Edge("disabled", "listening")
            \/ Edge("listening", "handshaking")
            \/ Edge("handshaking", "recovering")
            \/ Edge("recovering", "listening")]_vars
    /\ [](client.state # "streaming")
    /\ [](client.state = "recovering" => client.last_error = "E_SOCKET_IO")
    /\ [][client.last_error = "E_SOCKET_IO" => client'.last_error = "E_SOCKET_IO"]_vars
    /\ [](worker.pc # "dead" => <>(client.state = "recovering"))
    /\ [](client.state = "recovering" => <>(client.state = "listening"))

\* the worker waits in recovering after its sixth refused connect
C6_Witness ==
    /\ client.state = "recovering"
    /\ client.last_error = "E_SOCKET_IO"
    /\ ghost.fails = 6
    /\ ~net.listener

----------------------------------------------------------------------------
(* The frame sender over a session on tcp_lz4: the host enables the        *)
(* connection, starts the stream and sends frames; the peer accepts on     *)
(* tcp_lz4 or closes.                                                      *)

NextSender ==
    \/ WorkerLoop \/ WorkerSession \/ HostEnable
    \/ start_stream \/ start_stream_set
    \/ \E a \in FrameArgs : send_rgba_frame(a[1], a[2], a[3])
    \/ send_rgba_frame_transport \/ send_rgba_frame_meta
    \/ send_rgba_frame_chunk \/ send_rgba_frame_return
    \/ HostEnqueueFull
    \/ PeerSend(HelloAckTcp)
    \/ PeerClose("fin")

SpecSender == Init /\ [][NextSender]_vars

\* the types of the buffers the call has put, in order
LogKinds == [i \in 1..Len(host.log) |-> host.log[i].kind]

\* send_rgba_frame(4, 4, 64 bytes), the first frame of the sender, called in a
\* session on tcp_lz4 that is still on, is about to return
FirstFrameReturns ==
    /\ host.pc = "srf_return"
    /\ host.args = <<4, 4, 64>>
    /\ host.session # 0
    /\ host.session = StatusSession
    /\ sender.frame_id <= 1

\* after the handshake on tcp_lz4 the state is streaming on tcp_lz4
StreamingOnTcp ==
    worker.pc \in StreamingPcs /\ ghost.first_msg = HelloAckTcp =>
        client.state = "streaming" /\ client.transport = "tcp_lz4"

\* C7 as stated: after the handshake on tcp_lz4 the state is streaming and
\* selected_transport tcp_lz4, and a subsequent send_rgba_frame(4, 4, 64 bytes)
\* enqueues one frame_meta, then one binary chunk, and returns frame id 1.
C7_FrameAfterHandshake ==
    /\ StreamingOnTcp
    /\ FirstFrameReturns =>
          host.result = 1 /\ LogKinds = <<"frame_meta", "chunk">>

\* C7 amended: the same, for a sender whose stream start_stream() has started.
C7_FrameOfStartedStream ==
    /\ StreamingOnTcp
    /\ FirstFrameReturns /\ sender.streaming =>
          /\ host.result = 1
          /\ LogKinds = <<"frame_meta", "chunk">>
          /\ \A i \in 1..Len(host.log) : host.log[i].fid = 1

\* the first frame of a started stream returns its id in a session on tcp_lz4
C7_Witness ==
    /\ FirstFrameReturns
    /\ sender.streaming
    /\ host.result = 1
    /\ client.state = "streaming"
    /\ client.transport = "tcp_lz4"

----------------------------------------------------------------------------
(* The heartbeat deadline: the host enables the connection; the peer       *)
(* accepts on tcp_lz4 and sends heartbeats and acks, or closes; the clock  *)
(* runs.                                                                    *)

NextHeartbeat ==
    \/ WorkerLoop \/ WorkerSession \/ HostEnable
    \/ PeerSend(HelloAckTcp)
    \/ PeerSend(Msg("heartbeat", FALSE, None, "", "", 0, 0, 0))
    \/ PeerSend(Msg("ack", FALSE, None, "", "", 1, 0, 0))
    \/ PeerClose("fin")
    \/ Tick

SpecHeartbeat == Init /\ [][NextHeartbeat]_vars

\* C8: a session fails with E_HEARTBEAT_TIMEOUT only when more than 5000 ms
\* have passed since the handshake was completed or the last heartbeat of the
\* peer was handled; the check of the duty cycle that finds more than 5000 ms
\* passed fails the session with it, whatever acks came in between; the
\* failure is the last error of the wait in recovering.
C8_HeartbeatTimeout ==
    /\ [](worker.pc = "wm_except" /\ worker.exc.code = "E_HEARTBEAT_TIMEOUT"
            => ghost.since_hb > 5000)
    /\ [][worker.pc = "ss_hb_check" /\ worker'.pc # "ss_hb_check"
            /\ ghost.since_hb > 5000
            => worker'.pc = "wm_except"
               /\ worker'.exc.code = "E_HEARTBEAT_TIMEOUT"]_vars
    /\ [](worker.pc = "wm_backoff" /\ worker.exc.code = "E_HEARTBEAT_TIMEOUT"
            => client.state = "recovering"
               /\ client.last_error = "E_HEARTBEAT_TIMEOUT")

\* a session that streamed has failed with the timeout
C8_Witness ==
    /\ worker.pc = "wm_backoff"
    /\ client.state = "recovering"
    /\ client.last_error = "E_HEARTBEAT_TIMEOUT"
    /\ ghost.since_hb > 5000
    /\ ghost.sess_streamed

----------------------------------------------------------------------------
(* The end of a session by the peer: the host enables the connection; the  *)
(* peer accepts on tcp_lz4, sends an error message of any code and text,   *)
(* closes or resets the connection.                                        *)

NextPeerEnd ==
    \/ WorkerLoop \/ WorkerSession \/ worker_main_exit \/ HostEnable
    \/ PeerSend(HelloAckTcp)
    \/ \E m \in ErrorMsgs : PeerSend(m)
    \/ \E how \in {"fin", "rst"} : PeerClose(how)

SpecPeerEnd == Init /\ [][NextPeerEnd]_vars

\* the worker is past the handlers of an exception and before the next turn
AfterHandlers ==
    worker.pc \in {"wm_finally_close", "wm_finally_clear", "wm_after_stop",
                   "wm_after_cfg"}

C10_PeerErrorFatal ==
    worker.exc.site = "peer_error" /\ AfterHandlers =>
        /\ client.last_error = worker.exc.code
        /\ ~worker.fast_reconnect
        /\ worker.after = "normal"

----------------------------------------------------------------------------
(* Incoming frames of a session: the host enables the connection; the peer *)
(* accepts on tcp_lz4 and sends heartbeats, acks and frames that are no    *)
(* control message the client handles, or closes.                          *)

NextIncoming ==
    \/ WorkerLoop \/ WorkerSession \/ HostEnable
    \/ PeerSend(HelloAckTcp)
    \/ \E m \in HeartbeatMsgs \cup AckMsgs \cup OtherMsgs : PeerSend(m)
    \/ PeerClose("fin")

SpecIncoming == Init /\ [][NextIncoming]_vars

\* the worker's step is the recv of the duty cycle, and the first frame it
\* reads cannot be decoded as a control message or has an unknown type token
ReadsUndecodable ==
    /\ worker.pc = "ss_read"
    /\ worker'.pc # "ss_read"
    /\ net.conn = "open"
    /\ net.inbox # <<>>
    /\ Head(net.inbox).kind \in {"garbage", "unknown"}

\* C11: a frame received during streaming that cannot be decoded as a control
\* message, or whose type token is unknown, ends the session with
\* E_PROTO_MISMATCH (which the handlers record as last error before the
\* backoff).
C11_ProtocolErrorFatal ==
    [][ReadsUndecodable =>
          /\ worker'.pc = "wm_except"
          /\ worker'.exc.code = "E_PROTO_MISMATCH"]_vars

----------------------------------------------------------------------------
(* Disabling: the host enables the connection, disables it or shuts the    *)
(* client down; the peer accepts on tcp_lz4, sends a heartbeat with a size *)
(* hint or closes.  No producer enqueues.                                  *)

NextDisable ==
    \/ WorkerLoop \/ WorkerSession \/ WorkerStop
    \/ HostEnable \/ HostDisable
    \/ PeerSend(HelloAckTcp)
    \/ PeerSend(Msg("heartbeat", FALSE, None, "", "", 0, 4, 4))
    \/ PeerClose("fin")

SpecDisable == Init /\ [][NextDisable]_vars

\* the host is in no call and the last call that set the enabled flag was
\* disable_connection() or shutdown()
DisableReturned == host.pc = "idle" /\ ~client.enabled

\* C12: once disable_connection() / shutdown() has returned, and until the
\* next configure(enable=true) / request_connect, the state is disabled,
\* transport and session id are None, the inflight set is empty and the target
\* hint is (None, None), whatever the worker does.
C12_DisabledAfterReturn ==
    DisableReturned =>
        /\ client.state = "disabled"
        /\ client.transport = None
        /\ client.active_session_id = NoInt
        /\ client.inflight = <<>>
        /\ client.target_hint = <<NoInt, NoInt>>

----------------------------------------------------------------------------
(* The worker threads: the host enables the connection, disables it or     *)
(* shuts the client down, and enables it again while a thread that         *)
(* outlived the join of _stop_worker still runs; the peer accepts on       *)
(* tcp_lz4 or closes.                                                      *)

MaxOrphans == 1         \* threads that outlive a join, per run

\* client.py:145-149  request_connect, called while such a thread runs
request_connect_orphaned ==
    /\ host.pc = "idle"
    /\ Orphan
    /\ client.orphans < MaxOrphans
    /\ client' = request_connect_client(client)
    /\ host' = [host EXCEPT !.pc = "rc_ensure"]
    /\ UNCHANGED <<send_queue, worker, net, sender, ghost, framing, shm, codec>>

\* client.py:150 and _ensure_worker (221-230): the handle is None, so a new
\* thread is started at the top of _worker_main; the worker variable follows
\* the new thread from here on, the old one runs on and is only counted
ensure_worker_orphaned ==
    /\ host.pc = "rc_ensure"
    /\ Orphan
    /\ client' = [client EXCEPT !.stop_event = FALSE, !.worker_thread = TRUE,
                                !.orphans = client.orphans + 1]
    /\ worker' = [InitWorker EXCEPT !.pc = "wm_loop", !.backoff_index = 0]
    /\ host' = Return(host)
    /\ UNCHANGED <<send_queue, net, sender, ghost, framing, shm, codec>>

\* client.py:242, 247, 282, 294: a thread that outlived the join ends once it
\* finds the stop event set
orphan_exit ==
    /\ client.orphans > 0
    /\ client.stop_event
    /\ client' = [set_state(client, "disabled") EXCEPT !.orphans = client.orphans - 1]
    /\ UNCHANGED <<send_queue, worker, host, net, sender, ghost, framing, shm, codec>>

NextThreads ==
    \/ WorkerLoop \/ WorkerSession \/ WorkerStop
    \/ HostEnable \/ HostDisable
    \/ request_connect_orphaned \/ ensure_worker_orphaned \/ orphan_exit
    \/ PeerSend(HelloAckTcp)
    \/ PeerClose("fin")

SpecThreads == Init /\ [][NextThreads]_vars

\* the threads that run _worker_main
LiveWorkers == client.orphans + (IF worker.pc # "dead" THEN 1 ELSE 0)

\* C13: there are never two live worker threads.
C13_OneWorker == LiveWorkers <= 1

----------------------------------------------------------------------------
(* Cancellation: the host enables the connection, enqueues control         *)
(* messages and requests a stop by disable_connection, shutdown or         *)
(* configure(enable=false); the peer accepts on tcp_lz4 or closes; the     *)
(* clock runs.  The worker thread is scheduled again and again and time    *)
(* passes, so every timeout of the code expires; the host may stop calling.*)

WorkerThread == WorkerLoop \/ WorkerSession \/ WorkerStop

NextCancel ==
    \/ WorkerThread
    \/ HostEnable \/ HostDisable
    \/ configure(DEFAULT_PORT, FALSE)
    \/ enqueue_control_message("ctl", 0) \/ HostEnqueueFull
    \/ PeerSend(HelloAckTcp)
    \/ PeerClose("fin")
    \/ Tick

SpecCancel ==
    Init /\ [][NextCancel]_vars /\ WF_vars(WorkerThread) /\ WF_vars(Tick)

\* C14: after a stop is requested, in whichever phase the worker is, the
\* worker eventually terminates (having closed the socket and set the state to
\* disabled).
C14_StopHonoured ==
    client.stop_event ~> (worker.pc = "dead" /\ ~client.socket)

----------------------------------------------------------------------------
(* Claims on the stop request, on the worker threads                       *)

\* the exception is the stop request itself, or the OSError of a call on the
\* socket that _stop_worker has closed under the worker
StopCaused(exc) ==
    /\ exc.cls = "BridgeClientError"
    /\ \/ exc.code = "E_STOP_REQUESTED"
       \/ exc.code = "E_SOCKET_IO" /\ exc.text = CLOSED_SOCKET_TEXT

\* the worker's step is the last of the handlers of the exception
HandlersDone ==
    /\ worker.pc \in {"wm_except", "wm_exc_stop", "wm_exc_cfg", "wm_exc_record"}
    /\ worker'.pc = "wm_finally_close"

\* C15: the handlers of an exception that a stop has caused leave no error in
\* last_error: they clear it, or (E_STOP_REQUESTED) leave it as it was.
C15_StopIsNoError ==
    [][HandlersDone /\ StopCaused(worker.exc) =>
          \/ client'.last_error = None
          \/ worker.exc.code = "E_STOP_REQUESTED"
             /\ client'.last_error = client.last_error]_vars

\* C16: while the connection state is recovering, last_error holds an error.
C16_RecoveringHasError == client.state = "recovering" => client.last_error # None

----------------------------------------------------------------------------
(* configure with ports at and around the ends of the accepted range, with *)
(* and without enable_connection, while the worker runs                    *)

PortArgs == {1023, 1024, 65535, 65536}

NextPorts ==
    \/ WorkerLoop \/ WorkerSession \/ WorkerStop
    \/ \E port \in PortArgs, enable_connection \in BOOLEAN :
          configure(port, enable_connection)
    \/ configure_ensure_worker \/ configure_request_connect
    \/ request_connect_ensure_worker
    \/ stop_worker_set \/ stop_worker_close \/ stop_worker_join
    \/ PeerSend(HelloAckTcp)

SpecPorts == Init /\ [][NextPorts]_vars

\* C17: configure with a port outside 1024..65535 returns false, records
\* E_PORT_INVALID, leaves port, enabled flag and state as they were and starts
\* no worker; with any port of 1024..65535, the two ends included, it returns
\* true and takes the port and the flag.
C17_PortValidation ==
    [][\A port \in PortArgs, enable_connection \in BOOLEAN :
          configure(port, enable_connection) =>
              IF port < 1024 \/ port > 65535
              THEN /\ ~configure_result(port)
                   /\ client'.last_error = E_PORT_INVALID
                   /\ client'.port = client.port
                   /\ client'.enabled = client.enabled
                   /\ client'.state = client.state
                   /\ client'.worker_thread = client.worker_thread
                   /\ worker' = worker
                   /\ host'.pc = "idle"
              ELSE /\ configure_result(port)
                   /\ client'.port = port
                   /\ client'.enabled = enable_connection
                   /\ host'.pc \in {"cfg_ensure", "sw_set"}]_vars

\* a session streams on port 65535 and a later configure was refused
C17_Witness ==
    /\ client.port = 65535
    /\ client.state = "streaming"
    /\ client.last_error = E_PORT_INVALID

----------------------------------------------------------------------------
(* The host enqueues control messages with frame ids 1..MaxIds, in any     *)
(* order, while the worker streams to a peer that acknowledges any of     *)
(* them and keeps the connection; the lines the client prints are kept     *)

MaxIds == 4

FrameIds == 1..MaxIds

InitLogging ==
    /\ client = InitClient
    /\ send_queue = <<>>
    /\ worker = InitWorker
    /\ host = InitHost
    /\ net = InitNet
    /\ sender = InitSender
    /\ framing = InitFraming
    /\ shm = InitShm
    /\ codec = InitCodec
    /\ ghost = [InitGhost EXCEPT !.logging = TRUE]

NextInflight ==
    \/ worker_main_loop \/ worker_main_snapshot \/ worker_main_listening
    \/ run_session_handshaking \/ run_session_connect
    \/ WorkerSession \/ HostEnable
    \/ \E frame_id \in FrameIds : enqueue_control_message("frame_meta", frame_id)
    \/ HostEnqueueFull \/ enqueue_register
    \/ PeerSend(HelloAckTcp)
    \/ \E frame_id \in FrameIds : PeerSend(Msg("ack", FALSE, None, "", "", frame_id, 0, 0))

SpecInflight == InitLogging /\ [][NextInflight]_vars

\* C18: the inflight set never holds more than 3 ids, and registering an id
\* while 3 are pending removes the oldest, keeps the other two in their order
\* and puts the new id last.
C18_InflightBounded ==
    /\ [](Len(client.inflight) <= 3)
    /\ [][enqueue_register /\ Len(client.inflight) = 3 =>
             client'.inflight = <<client.inflight[2], client.inflight[3], host.fid>>]_vars

\* 1, 2, 3 and 4 were registered in this order: 1 was dropped
C18_Witness == ghost.dropped = 1 /\ client.inflight = <<2, 3, 4>>

----------------------------------------------------------------------------
(* Claims on the frame ids of the sender and on the send queue             *)

\* the ids of the inflight set
InflightIds == {client.inflight[i] : i \in 1..Len(client.inflight)}

\* C19: when send_rgba_frame returns frame id f in a session that is still
\* streaming, with no ack handled and no other id registered since, f is in
\* the inflight set.
C19_FrameTracked ==
    host.pc = "srf_return" /\ host.result > 0 /\ client.state = "streaming"
        => host.result \in InflightIds

\* the put_nowait of an enqueue finds the queue full
PutFindsFull == host.pc \notin {"enq_get", "enq_put"} /\ host'.pc = "enq_get"

\* the steps of an enqueue on a full queue with no dequeue meanwhile: the failed
\* put leaves the queue as it was, the get takes the oldest of the full queue,
\* the second put appends the new buffer to what is left
DropOldestSteps ==
    /\ PutFindsFull =>
          (Len(send_queue) = MaxQueue /\ send_queue' = send_queue)
    /\ (enqueue_drop_oldest /\ Len(send_queue) = MaxQueue) =>
          send_queue' = [i \in 1..(MaxQueue - 1) |-> send_queue[i + 1]]
    /\ (enqueue_retry /\ Len(send_queue) = MaxQueue - 1) =>
          /\ Len(send_queue') = MaxQueue
          /\ \A i \in 1..(MaxQueue - 1) : send_queue'[i] = send_queue[i]
          /\ send_queue'[MaxQueue].fid = host.item.fid
          /\ send_queue'[MaxQueue].kind = host.item.kind

\* C20: the send queue never holds more than its capacity; an enqueue that
\* finds it full, with no dequeue meanwhile, leaves the previous buffers less
\* the oldest, in their order, followed by the new buffer.
C20_DropOldest == [](Len(send_queue) <= MaxQueue) /\ [][DropOldestSteps]_vars

\* the queue was full with the buffer of frame 2 last, the enqueue of frame 3
\* has dropped the oldest and is about to put its buffer
C20_Witness ==
    /\ host.pc = "enq_put"
    /\ host.item.fid = 3
    /\ Len(send_queue) = MaxQueue - 1
    /\ send_queue[MaxQueue - 1].fid = 2

----------------------------------------------------------------------------
(* The byte stream of the connection while the host sends frames on        *)
(* tcp_lz4: the environment of SpecSender, the frames written to the       *)
(* socket are kept                                                         *)

InitTracing ==
    /\ client = InitClient
    /\ send_queue = <<>>
    /\ worker = InitWorker
    /\ host = InitHost
    /\ net = InitNet
    /\ sender = InitSender
    /\ framing = InitFraming
    /\ shm = InitShm
    /\ codec = InitCodec
    /\ ghost = [InitGhost EXCEPT !.tracing = TRUE]

SpecWire == InitTracing /\ [][NextSender]_vars

\* _flush_send_queue writes the oldest buffer of the queue to the socket
FlushWrites ==
    run_session_flush /\ send_queue # <<>> /\ worker'.pc = "ss_flush"

\* the worker writes its heartbeat to the socket
HeartbeatWrites ==
    /\ run_session_heartbeat
    /\ worker.sent_age >= HEARTBEAT_INTERVAL_MS
    /\ worker'.pc = "ss_read"

\* a chunk is written right after the frame_meta of its frame, and what is
\* written right after a frame_meta is the chunk of its frame
ChunkPaired ==
    /\ (FlushWrites /\ Head(send_queue).kind = "chunk") =>
          (ghost.wire.kind = "frame_meta" /\ ghost.wire.fid = Head(send_queue).fid)
    /\ (FlushWrites /\ ghost.wire.kind = "frame_meta") =>
          (Head(send_queue).kind = "chunk" /\ Head(send_queue).fid = ghost.wire.fid)
    /\ HeartbeatWrites => ghost.wire.kind # "frame_meta"

\* C21: in the byte stream written to the socket every binary chunk comes
\* right after the frame_meta of the same frame, and nothing else comes right
\* after a frame_meta.
C21_ChunkPaired == [][ChunkPaired]_vars

----------------------------------------------------------------------------
(* send_rgba_frame with good and bad arguments, in and out of a stream, on *)
(* tcp_lz4 and on shm, to a peer that keeps the connection                 *)

HelloAckShm == Msg("hello_ack", TRUE, BRIDGE_TRANSPORT_SHM, "", "", 0, 0, 0)

\* width, height and len(pixels): good, a byte short, a byte long, and width
\* or height zero or negative
AllFrameArgs ==
    {<<4, 4, 64>>, <<4, 4, 63>>, <<4, 4, 65>>, <<0, 4, 64>>, <<4, 0, 64>>,
     <<-1, 4, 64>>, <<4, -1, 64>>}

NextFrameArgs ==
    \/ worker_main_loop \/ worker_main_snapshot \/ worker_main_listening
    \/ run_session_handshaking \/ run_session_connect
    \/ WorkerSession \/ HostEnable
    \/ start_stream \/ start_stream_set \/ stop_stream \/ stop_stream_set
    \/ \E a \in AllFrameArgs : send_rgba_frame(a[1], a[2], a[3])
    \/ send_rgba_frame_transport \/ send_rgba_frame_meta
    \/ send_rgba_frame_chunk \/ send_rgba_frame_return
    \/ HostEnqueueFull
    \/ PeerSend(HelloAckTcp) \/ PeerSend(HelloAckShm)

SpecFrameArgs == Init /\ [][NextFrameArgs]_vars

\* the call returns at once: no id (0) or ValueError (-1), with the frame id
\* counter, the send queue and the ring as they were
Refused(result) ==
    /\ host'.pc = "srf_return"
    /\ host'.result = result
    /\ sender' = sender
    /\ send_queue' = send_queue

SendRgbaFrameChecks ==
    /\ \A a \in AllFrameArgs :
          send_rgba_frame(a[1], a[2], a[3]) =>
              IF ~sender.streaming \/ a[1] <= 0 \/ a[2] <= 0 THEN Refused(0)
              ELSE IF a[3] < a[1] * 4 * a[2] THEN Refused(-1)
              ELSE host'.result = sender.frame_id + 1 /\ host'.pc # "srf_return"
    /\ (send_rgba_frame_return /\ host.result <= 0) =>
          (sender' = sender /\ send_queue' = send_queue)

\* C22: send_rgba_frame outside a stream or with a width or height that is not
\* positive returns no id, and with fewer than stride*height bytes it raises
\* ValueError; either way the frame id counter, the send queue and the ring
\* stay as they were.
C22_SendRgbaFrameChecks == [][SendRgbaFrameChecks]_vars

\* a short buffer was refused in a stream on shm that has sent a frame
C22_Witness ==
    /\ host.pc = "srf_return"
    /\ host.result = -1
    /\ sender.streaming
    /\ sender.frame_id = 1
    /\ sender.write_index = 1

----------------------------------------------------------------------------
(* framing.py: payloads of bytes are encoded one by one, with the          *)
(* decoder's limit or with a limit one above it, and their bytes are       *)
(* pushed to one FrameDecoder in chunks of any length                      *)

MaxPayloadLen == 2      \* max_payload_len of the decoder
MaxPayloads == 2        \* payloads of a run

ByteValues == {0, 1}

\* the sequences of at most n elements of S
SeqsUpTo(S, n) == UNION {[1..k -> S] : k \in 0..n}

\* payloads up to one byte above the larger limit
Payloads == SeqsUpTo(ByteValues, MaxPayloadLen + 2)

\* framing.py:58  payload_len.to_bytes(4, byteorder="big", signed=False)
to_bytes4(n) ==
    <<(n \div 16777216) % 256, (n \div 65536) % 256, (n \div 256) % 256, n % 256>>

\* framing.py:31  int.from_bytes(self._buffer[0:4], byteorder="big", signed=False)
from_bytes4(b) == b[1] * 16777216 + b[2] * 65536 + b[3] * 256 + b[4]

\* encode_frame that refuses a payload of exactly max_payload_len bytes
encode_frame_strict(payload, max_payload_len) ==
    IF Len(payload) >= max_payload_len
    THEN [exc |-> FrameError(E_MSG_TOO_LARGE, "encode_frame"), bytes |-> <<>>]
    ELSE [exc |-> NoExc, bytes |-> to_bytes4(Len(payload)) \o payload]

\* framing.py:49-58  encode_frame: the FrameError it raises or the bytes it returns
encode_frame(payload, max_payload_len) ==
    IF Len(payload) > max_payload_len
    THEN [exc |-> FrameError(E_MSG_TOO_LARGE, "encode_frame"), bytes |-> <<>>]
    ELSE [exc |-> NoExc, bytes |-> to_bytes4(Len(payload)) \o payload]

RECURSIVE extract_frames(_, _, _)
\* framing.py:28-46  the loop of push_bytes on the extended buffer: the buffer
\* it leaves, the frames it returns, the FrameError it raises (the frames
\* taken before the raise leave the buffer and are not returned)
extract_frames(buffer, frames, max_payload_len) ==
    IF Len(buffer) < 4
    THEN [buffer |-> buffer, frames |-> frames, exc |-> NoExc]
    ELSE LET payload_len == from_bytes4(buffer)
             frame_len == 4 + payload_len
         IN IF payload_len > max_payload_len
            THEN [buffer |-> buffer, frames |-> <<>>,
                  exc |-> FrameError(E_MSG_TOO_LARGE, "push_bytes")]
            ELSE IF Len(buffer) < frame_len
            THEN [buffer |-> buffer, frames |-> frames, exc |-> NoExc]
            ELSE extract_frames(SubSeq(buffer, frame_len + 1, Len(buffer)),
                                Append(frames, SubSeq(buffer, 5, frame_len)),
                                max_payload_len)

\* push_bytes that parses the chunk alone
push_bytes_unbuffered(buffer, chunk, max_payload_len) ==
    IF chunk = <<>> THEN [buffer |-> buffer, frames |-> <<>>, exc |-> NoExc]
    ELSE extract_frames(chunk, <<>>, max_payload_len)

\* framing.py:22-46  FrameDecoder.push_bytes(chunk) on a decoder with this buffer
push_bytes(buffer, chunk, max_payload_len) ==
    IF chunk = <<>> THEN [buffer |-> buffer, frames |-> <<>>, exc |-> NoExc]
    ELSE extract_frames(buffer \o chunk, <<>>, max_payload_len)

InitFramed ==
    /\ client = InitClient
    /\ send_queue = <<>>
    /\ worker = InitWorker
    /\ host = InitHost
    /\ net = InitNet
    /\ sender = InitSender
    /\ ghost = InitGhost
    /\ framing \in {[InitFraming EXCEPT !.max_payload_len = MaxPayloadLen, !.todo = ps] :
                       ps \in SeqsUpTo(Payloads, MaxPayloads)}
    /\ shm = InitShm
    /\ codec = InitCodec

\* the next payload is encoded with this limit; its frame goes on the wire
FrameEncode(max_payload_len) ==
    /\ framing.todo # <<>>
    /\ LET payload == Head(framing.todo)
           r == encode_frame(payload, max_payload_len)
       IN framing' = IF r.exc # NoExc
                     THEN [framing EXCEPT !.todo = Tail(framing.todo), !.enc_exc = r.exc]
                     ELSE [framing EXCEPT !.todo = Tail(framing.todo),
                                          !.sent = Append(framing.sent, payload),
                                          !.wire = framing.wire \o r.bytes]
    /\ UNCHANGED <<client, send_queue, worker, host, net, sender, ghost, shm, codec>>

\* the next n bytes of the wire are pushed to the decoder as one chunk
FramePush(n) ==
    /\ framing.exc = NoExc
    /\ n <= Len(framing.wire)
    /\ LET chunk == SubSeq(framing.wire, 1, n)
           r == push_bytes(framing.buffer, chunk, framing.max_payload_len)
       IN framing' = [framing EXCEPT
                        !.wire = SubSeq(framing.wire, n + 1, Len(framing.wire)),
                        !.buffer = r.buffer,
                        !.out = framing.out \o r.frames,
                        !.exc = r.exc,
                        !.pushes = framing.pushes + (IF n > 0 THEN 1 ELSE 0)]
    /\ UNCHANGED <<client, send_queue, worker, host, net, sender, ghost, shm, codec>>

\* the lengths a chunk is given
ChunkLens == 0..(MaxPayloads * (4 + MaxPayloadLen + 1))

NextFraming ==
    \/ \E max_payload_len \in {MaxPayloadLen, MaxPayloadLen + 1} :
          FrameEncode(max_payload_len)
    \/ \E n \in ChunkLens : FramePush(n)

SpecFraming == InitFramed /\ [][NextFraming]_vars

\* the bytes of the frames of these payloads, concatenated
RECURSIVE Frames(_)
Frames(payloads) ==
    IF payloads = <<>> THEN <<>>
    ELSE (<<0, 0, 0, Len(Head(payloads))>> \o Head(payloads)) \o Frames(Tail(payloads))

\* every payload encoded so far is within the decoder's limit
AllWithinLimit ==
    \A i \in 1..Len(framing.sent) : Len(framing.sent[i]) <= framing.max_payload_len

\* C23: when every payload is within the limit, however the bytes of their
\* frames are split into chunks, the payloads returned so far are the first
\* ones encoded, in order; the buffer holds the pushed bytes of the next frame,
\* which is not complete; once every byte is pushed, all payloads are returned.
C23_Reassembly ==
    AllWithinLimit =>
        LET n == Len(framing.out)
            rest == SubSeq(framing.sent, n + 1, Len(framing.sent))
        IN /\ framing.exc = NoExc
           /\ n <= Len(framing.sent)
           /\ framing.out = SubSeq(framing.sent, 1, n)
           /\ framing.buffer \o framing.wire = Frames(rest)
           /\ rest # <<>> => Len(framing.buffer) < 4 + Len(rest[1])
           /\ framing.wire = <<>> => (framing.out = framing.sent /\ framing.buffer = <<>>)

\* two payloads, the second of two bytes, came back from five chunks or more
C23_Witness ==
    /\ framing.todo = <<>>
    /\ framing.wire = <<>>
    /\ Len(framing.sent) = 2
    /\ AllWithinLimit
    /\ Len(framing.sent[2]) = MaxPayloadLen
    /\ framing.out = framing.sent
    /\ framing.pushes >= 5

\* encode_frame raises E_MSG_TOO_LARGE for the payloads above its limit and
\* for no other, and frames the others
EncodeChecksLimit ==
    \A max_payload_len \in {MaxPayloadLen, MaxPayloadLen + 1} :
        FrameEncode(max_payload_len) =>
            IF Len(Head(framing.todo)) > max_payload_len
            THEN /\ framing'.enc_exc.cls = "FrameError"
                 /\ framing'.enc_exc.code = "E_MSG_TOO_LARGE"
                 /\ framing'.wire = framing.wire
            ELSE /\ framing'.enc_exc = framing.enc_exc
                 /\ Len(framing'.wire) = Len(framing.wire) + 4 + Len(Head(framing.todo))

\* the length the first four bytes of the buffer declare
Declared == framing.buffer[1] * 16777216 + framing.buffer[2] * 65536
            + framing.buffer[3] * 256 + framing.buffer[4]

\* push_bytes has raised E_MSG_TOO_LARGE if and only if the buffer starts with
\* a header that declares more than the limit
DecoderChecksLimit ==
    /\ framing.exc = NoExc =>
          (Len(framing.buffer) >= 4 => Declared <= framing.max_payload_len)
    /\ framing.exc # NoExc =>
          /\ framing.exc.cls = "FrameError"
          /\ framing.exc.code = "E_MSG_TOO_LARGE"
          /\ Len(framing.buffer) >= 4
          /\ Declared > framing.max_payload_len

\* C24: encode_frame fails with E_MSG_TOO_LARGE exactly when the payload is
\* longer than the limit; push_bytes fails with E_MSG_TOO_LARGE as soon as the
\* four header bytes at the head of its buffer declare more than its limit,
\* whether or not bytes of that payload have arrived.
C24_SizeLimits == []DecoderChecksLimit /\ [][EncodeChecksLimit]_vars

\* encode_frame refused one payload, and the frame of another, encoded with the
\* larger limit, made push_bytes raise on its bare header
C24_Witness ==
    /\ framing.enc_exc.code = "E_MSG_TOO_LARGE"
    /\ framing.exc.code = "E_MSG_TOO_LARGE"
    /\ Len(framing.buffer) = 4
    /\ Len(framing.sent) = 1
    /\ Len(framing.sent[1]) = MaxPayloadLen + 1

----------------------------------------------------------------------------
(* The frames of a stream on shm, the reader of the segments and the calls  *)
(* on a ring                                                               *)

\* the bounds of the runs
MaxShmFrames == 4       \* frames sent on shm
MaxNow == 3             \* seconds the clock runs

\* len(pixels[:required_len]) of the frames: two sizes
RequiredLens == {64, 128}

\* a second passes
ShmTick ==
    /\ shm.now < MaxNow
    /\ shm' = [shm EXCEPT !.now = shm.now + 1]
    /\ UNCHANGED <<client, send_queue, worker, host, net, sender, ghost, framing, codec>>

\* send_rgba_frame that goes on to its frame_meta when the ring has raised
send_rgba_frame_shm_swallows(required_len) ==
    /\ host.pc = "idle"
    /\ sender.streaming
    /\ sender.frame_id < MaxShmFrames
    /\ LET frame_id == sender.frame_id + 1
           s1 == ring_for_frame(shm, client.port, required_len)
           s2 == IF s1.exc # NoExc THEN s1
                 ELSE write_next(s1, s1.shm_ring, required_len, frame_id, frame_id)
       IN /\ sender' = [sender EXCEPT !.frame_id = frame_id]
          /\ IF s2.exc # NoExc
             THEN /\ shm' = s2
                  /\ host' = [host EXCEPT !.pc = "srf_shm_meta", !.fid = frame_id]
             ELSE /\ shm' = [s2 EXCEPT !.writer.cont = "srf_shm_meta"]
                  /\ host' = [host EXCEPT !.pc = "ws_seq", !.fid = frame_id]
    /\ UNCHANGED <<client, send_queue, worker, net, ghost, framing, codec>>

\* frame_sender.py:83-98, 114-120 and _write_frame_to_shm (165-192): a frame of
\* a stream on shm, from its frame id to the stores of write_slot; the
\* timestamp and the pixels differ from frame to frame, as the frame id does
send_rgba_frame_shm_upto(required_len, max_frames) ==
    /\ host.pc = "idle"
    /\ sender.streaming
    /\ sender.frame_id < max_frames
    /\ LET frame_id == sender.frame_id + 1
           s1 == ring_for_frame(shm, client.port, required_len)
           s2 == IF s1.exc # NoExc THEN s1
                 ELSE write_next(s1, s1.shm_ring, required_len, frame_id, frame_id)
       IN /\ sender' = [sender EXCEPT !.frame_id = frame_id]
          /\ IF s2.exc # NoExc
             THEN /\ shm' = s2
                  /\ host' = Return(host)
             ELSE /\ shm' = [s2 EXCEPT !.writer.cont = "srf_shm_meta"]
                  /\ host' = [host EXCEPT !.pc = "ws_seq", !.fid = frame_id]
    /\ UNCHANGED <<client, send_queue, worker, net, ghost, framing, codec>>

\* the frames of a run of MaxShmFrames frames
send_rgba_frame_shm(required_len) == send_rgba_frame_shm_upto(required_len, MaxShmFrames)

\* the history after write_slot has stored next_committed_seq in a slot
Committed(g, seg, slot, seq) ==
    IF g.seqing THEN [g EXCEPT !.committed = @ \cup {<<seg, slot, seq>>}] ELSE g

\* shm_ring.py:102-109  the stores of write_slot, one at a time, and its return
write_slot_store ==
    /\ host.pc \in {"ws_seq", "ws_len", "ws_fid", "ws_ts", "ws_p1", "ws_p2", "ws_commit"}
    /\ LET w == shm.writer
           seg == shm.rings[w.ring].seg
       IN CASE host.pc = "ws_seq" ->
                 /\ shm' = [shm EXCEPT !.segs[seg].slots[w.slot].seq = w.writing_seq]
                 /\ host' = [host EXCEPT !.pc = "ws_len"]
            [] host.pc = "ws_len" ->
                 /\ shm' = [shm EXCEPT !.segs[seg].slots[w.slot].len = w.len]
                 /\ host' = [host EXCEPT !.pc = "ws_fid"]
            [] host.pc = "ws_fid" ->
                 /\ shm' = [shm EXCEPT !.segs[seg].slots[w.slot].fid = w.fid]
                 /\ host' = [host EXCEPT !.pc = "ws_ts"]
            [] host.pc = "ws_ts" ->
                 /\ shm' = [shm EXCEPT !.segs[seg].slots[w.slot].ts = w.ts]
                 /\ host' = [host EXCEPT !.pc = "ws_p1"]
            [] host.pc = "ws_p1" ->
                 /\ shm' = [shm EXCEPT !.segs[seg].slots[w.slot].p1 = w.fid]
                 /\ host' = [host EXCEPT !.pc = "ws_p2"]
            [] host.pc = "ws_p2" ->
                 /\ shm' = [shm EXCEPT !.segs[seg].slots[w.slot].p2 = w.fid]
                 /\ host' = [host EXCEPT !.pc = "ws_commit"]
            [] host.pc = "ws_commit" ->
                 /\ shm' = [shm EXCEPT
                              !.segs[seg].slots[w.slot].seq = w.next_committed_seq,
                              !.rings[w.ring].slot_seq[w.slot] = w.next_committed_seq,
                              !.ret = w.slot,
                              !.writer = NoWriter]
                 /\ host' = IF w.cont = "idle" THEN Return(host)
                            ELSE [host EXCEPT !.pc = w.cont]
    /\ ghost' = IF host.pc = "ws_commit"
                THEN Committed(ghost, shm.rings[shm.writer.ring].seg, shm.writer.slot,
                               shm.writer.next_committed_seq)
                ELSE ghost
    /\ UNCHANGED <<client, send_queue, worker, net, sender, framing, codec>>

\* frame_sender.py:121-133  enqueue_control_message(build_frame_meta(...,
\* shm_slot=slot, ...)); return frame_id
send_rgba_frame_shm_meta ==
    /\ host.pc = "srf_shm_meta"
    /\ put_nowait([host EXCEPT !.result = host.fid],
                  Item("frame_meta", host.fid, shm.ret, 0), "srf_return")
    /\ UNCHANGED <<client, worker, net, sender, ghost, framing, shm, codec>>

\* the stream on shm: its frames, the clock, the stream's start and stop
NextRings ==
    \/ start_stream \/ start_stream_set \/ stop_stream \/ stop_stream_set
    \/ \E n \in RequiredLens : send_rgba_frame_shm(n)
    \/ write_slot_store \/ send_rgba_frame_shm_meta \/ send_rgba_frame_return
    \/ HostEnqueueFull
    \/ ShmTick

SpecRings == Init /\ [][NextRings]_vars

\* The reader is the peer: it has the segment mapped and reads a slot as the
\* seqlock asks, seq first, then the fields and the payload, then seq again.
reader_begin(seg, slot) ==
    /\ shm.reader.pc = "idle"
    /\ shm' = [shm EXCEPT !.reader = [NoReader EXCEPT
                                        !.pc = "r_len", !.seg = seg, !.slot = slot,
                                        !.s1 = shm.segs[seg].slots[slot].seq]]
    /\ UNCHANGED <<client, send_queue, worker, host, net, sender, ghost, framing, codec>>

reader_copy ==
    /\ shm.reader.pc \in {"r_len", "r_fid", "r_ts", "r_p1", "r_p2", "r_seq"}
    /\ LET r == shm.reader
           m == shm.segs[r.seg].slots[r.slot]
       IN shm' = [shm EXCEPT !.reader =
                CASE r.pc = "r_len" -> [r EXCEPT !.copy.len = m.len, !.pc = "r_fid"]
                  [] r.pc = "r_fid" -> [r EXCEPT !.copy.fid = m.fid, !.pc = "r_ts"]
                  [] r.pc = "r_ts" -> [r EXCEPT !.copy.ts = m.ts, !.pc = "r_p1"]
                  [] r.pc = "r_p1" -> [r EXCEPT !.copy.p1 = m.p1, !.pc = "r_p2"]
                  [] r.pc = "r_p2" -> [r EXCEPT !.copy.p2 = m.p2, !.pc = "r_seq"]
                  [] r.pc = "r_seq" ->
                       [r EXCEPT !.copy.seq = m.seq, !.pc = "done",
                                 !.accepted = (r.s1 = m.seq /\ r.s1 % 2 = 0)]]
    /\ UNCHANGED <<client, send_queue, worker, host, net, sender, ghost, framing, codec>>

Reader ==
    \/ \E seg \in 1..Len(shm.segs) :
         \E slot \in 0..(DEFAULT_RING_SLOTS - 1) : reader_begin(seg, slot)
    \/ reader_copy

MaxReadFrames == 3      \* frames sent while the reader reads

\* the first frames of the stream, within one second, and one read of a slot
NextSeqlock ==
    \/ start_stream \/ start_stream_set \/ stop_stream \/ stop_stream_set
    \/ \E n \in RequiredLens :
         sender.frame_id < MaxReadFrames /\ send_rgba_frame_shm(n)
    \/ write_slot_store \/ send_rgba_frame_shm_meta \/ send_rgba_frame_return
    \/ HostEnqueueFull
    \/ Reader

SpecSeqlock == Init /\ [][NextSeqlock]_vars

\* what the reader copied is what one call of write_slot stored: the frame id,
\* the timestamp and both halves of the payload are that call's
OneWrite(copy) ==
    /\ copy.fid > 0
    /\ copy.ts = copy.fid
    /\ copy.p1 = copy.fid
    /\ copy.p2 = copy.fid

\* C25: write_slot stores the odd seq first and the even seq last, and a reader
\* whose two reads of seq are equal and even has copied the fields and the payload
\* of one write_slot call, never a mixture
C25_Seqlock ==
    (shm.reader.pc = "done" /\ shm.reader.accepted /\ shm.reader.s1 > 0)
        => OneWrite(shm.reader.copy)

-----------------------------------------------------------------------------
(* The calls on rings, one ring or several on one segment                  *)

MaxRings == 2           \* ring objects made
MaxCalls == 3           \* writes to one ring

\* slot_count of the rings of a size: 2 slots of 88 bytes, 3 slots of 152
SlotCount(required_len) == IF required_len = 64 THEN 2 ELSE 3

\* SharedMemoryRing(name, slot_count, slot_size, create)
ring_open(required_len, create) ==
    /\ host.pc = "idle"
    /\ Len(shm.rings) < MaxRings
    /\ shm' = SharedMemoryRing(shm,
                  default_ring_name(DEFAULT_PORT, SHM_HEADER_BYTES + required_len),
                  SlotCount(required_len), SHM_HEADER_BYTES + required_len, create)
    /\ UNCHANGED <<client, send_queue, worker, host, net, sender, ghost, framing, codec>>

\* the stores follow a call that raised nothing
StartStores(s) ==
    /\ shm' = s
    /\ host' = IF s.exc = NoExc THEN [host EXCEPT !.pc = "ws_seq"] ELSE host

\* ring.write_next(payload, frame_id, timestamp_ms)
ring_write_next(r, payload_len) ==
    /\ host.pc = "idle"
    /\ shm.rings[r].calls < MaxCalls
    /\ StartStores(write_next(shm, r, payload_len,
                              shm.rings[r].calls + 1, shm.rings[r].calls + 1))
    /\ UNCHANGED <<client, send_queue, worker, net, sender, ghost, framing, codec>>

\* ring.write_slot(slot_index, payload, frame_id, timestamp_ms), of a ring that
\* has written nothing yet
ring_write_slot(r, slot_index, payload_len) ==
    /\ host.pc = "idle"
    /\ shm.rings[r].calls = 0
    /\ \A i \in DOMAIN shm.rings[r].slot_seq : shm.rings[r].slot_seq[i] = 0
    /\ StartStores(write_slot(shm, r, slot_index, payload_len, MaxCalls + 1, MaxCalls + 1))
    /\ UNCHANGED <<client, send_queue, worker, net, sender, ghost, framing, codec>>

\* ring.read_slot(slot_index, byte_size)
ring_read_slot(r, slot_index, byte_size) ==
    /\ host.pc = "idle"
    /\ shm' = read_slot([shm EXCEPT !.ret = -1], r, slot_index, byte_size)
    /\ UNCHANGED <<client, send_queue, worker, host, net, sender, ghost, framing, codec>>

\* ring.close(unlink)
ring_close_call(r, unlink) ==
    /\ host.pc = "idle"
    /\ shm' = [ring_close(shm, r, unlink) EXCEPT !.exc = NoExc]
    /\ UNCHANGED <<client, send_queue, worker, host, net, sender, ghost, framing, codec>>

SlotArgs == {-1, 0, 3}

NextRingApi ==
    \/ \E n \in RequiredLens, create \in BOOLEAN : ring_open(n, create)
    \/ \E r \in 1..Len(shm.rings) :
         \/ \E n \in RequiredLens : ring_write_next(r, n)
         \/ \E i \in SlotArgs, n \in RequiredLens : ring_write_slot(r, i, n)
         \/ \E i \in SlotArgs, n \in RequiredLens : ring_read_slot(r, i, n)
         \/ \E unlink \in BOOLEAN : ring_close_call(r, unlink)
    \/ write_slot_store

SpecRingApi == Init /\ [][NextRingApi]_vars

\* the commit of the i-th write_next of a ring of k slots stores in slot i mod k
\* and that index is what the call returns
RoundRobin ==
    (write_slot_store /\ host.pc = "ws_commit" /\ shm.writer.op = "write_next") =>
        LET w == shm.writer
            ring == shm.rings[w.ring]
            i == ring.calls - 1
        IN /\ w.slot = i % ring.slot_count
           /\ shm'.ret = i % ring.slot_count
           /\ shm'.segs[ring.seg].slots[i % ring.slot_count].fid = w.fid
           /\ shm'.segs[ring.seg].slots[i % ring.slot_count].seq % 2 = 0

\* C26: on a ring of k slots the i-th call of write_next, counted from 0 since
\* the ring object was made, writes slot i mod k and returns that index
C26_RoundRobin == [][RoundRobin]_vars

\* the third write_next of a ring of two slots has returned slot 0
C26_Witness ==
    /\ host.pc = "idle"
    /\ shm.ret = 0
    /\ \E r \in 1..Len(shm.rings) :
         /\ shm.rings[r].slot_count = 2
         /\ shm.rings[r].calls = 3
         /\ shm.segs[shm.rings[r].seg].slots[0].fid = 3

-----------------------------------------------------------------------------
(* The rings of a stream whose frames change size                          *)

\* the rings of the retired list
RetiredRings == {shm.retired_rings[i].ring : i \in 1..Len(shm.retired_rings)}

\* the segment the active ring writes to is linked: no retired ring's close
\* has unlinked it
ActiveLinked ==
    shm.shm_ring # 0 => shm.segs[shm.rings[shm.shm_ring].seg].linked

\* the active ring has the name of no ring of the retired list
NoAlias ==
    /\ shm.shm_ring # 0 =>
          \A r \in RetiredRings : shm.rings[r].name # shm.rings[shm.shm_ring].name
    /\ ActiveLinked

\* C28: whatever the sizes of the frames sent on shm, the active ring's segment
\* name is the name of no ring of the retired list, and closing a retired ring
\* never unlinks the segment the active ring writes to
C28_NoAlias == NoAlias

\* a frame whose slot size is not the active ring's: the active ring stays open
\* and is the last of the retired list, to expire a grace window from now, and
\* the active ring is a new one under the name of the new size
Resized(n) ==
    (/\ send_rgba_frame_shm(n)
     /\ shm.shm_ring # 0
     /\ shm.last_ring_size # SHM_HEADER_BYTES + n
     /\ shm'.exc = NoExc) =>
        /\ ~shm'.rings[shm.shm_ring].closed
        /\ shm'.retired_rings # <<>>
        /\ LET x == shm'.retired_rings[Len(shm'.retired_rings)]
           IN /\ x.ring = shm.shm_ring
              /\ x.expires_at = shm.now + RETIRED_RING_TTL_SEC
        /\ shm'.shm_ring = Len(shm.rings) + 1
        /\ shm'.rings[shm'.shm_ring].name
               = default_ring_name(client.port, SHM_HEADER_BYTES + n)
        /\ ~shm'.rings[shm'.shm_ring].closed

\* a retired ring is closed by the stop of the stream or by a frame written on
\* shm at or after the ring's expiry
ClosedWhenDue ==
    \A i \in 1..Len(shm.retired_rings) :
        LET x == shm.retired_rings[i] IN
        (~shm.rings[x.ring].closed /\ shm'.rings[x.ring].closed) =>
            \/ stop_stream_set
            \/ /\ \E n \in RequiredLens : send_rgba_frame_shm(n)
               /\ shm.now >= x.expires_at

RetirementSteps == (\A n \in RequiredLens : Resized(n)) /\ ClosedWhenDue

\* a retired ring whose grace window has not elapsed is open and its segment is
\* still linked
GraceKept ==
    \A i \in 1..Len(shm.retired_rings) :
        LET x == shm.retired_rings[i] IN
        shm.now < x.expires_at =>
            /\ ~shm.rings[x.ring].closed
            /\ shm.segs[shm.rings[x.ring].seg].linked

\* C27: on a frame of another slot size the active ring is not closed but moved
\* to the retired list, to expire a grace window later, and a new ring is made
\* under the name of the new size; a retired ring is closed and unlinked only by
\* a shm write at or after its expiry or by the stop of the stream, never before
\* its grace window has elapsed
C27_Retirement == []GraceKept /\ [][RetirementSteps]_vars

\* the steps alone: the move to the retired list and the closes of retired rings
C27_RetirementSteps == [][RetirementSteps]_vars

\* nothing of the rings is left: no active ring, no retired ring, every ring
\* object closed and every segment unlinked
AllRingsGone ==
    /\ shm.shm_ring = 0
    /\ shm.retired_rings = <<>>
    /\ \A r \in 1..Len(shm.rings) : shm.rings[r].closed
    /\ \A i \in 1..Len(shm.segs) : ~shm.segs[i].linked

StopDestroysRings == stop_stream_set => AllRingsGone'

\* C29: when stop_stream returns there is no active ring, the retired list is
\* empty and every segment the process owned is unlinked, whatever the expiry
\* of the retired rings
C29_StopDestroysRings == [][StopDestroysRings]_vars

\* stop_stream has returned in the second in which two rings were retired and
\* a third was active
C29_Witness ==
    /\ host.pc = "idle"
    /\ ~sender.streaming
    /\ shm.now = 0
    /\ Len(shm.rings) = 3
    /\ AllRingsGone

-----------------------------------------------------------------------------
(* close of a ring and the calls after it                                  *)

\* close(unlink) of an open ring closes it; it unlinks the segment when unlink is
\* asked of the owner and leaves every segment as it is otherwise
CloseOpen(r, unlink) ==
    (ring_close_call(r, unlink) /\ ~shm.rings[r].closed) =>
        /\ shm'.rings[r].closed
        /\ IF unlink /\ shm.rings[r].owner
           THEN ~shm'.segs[shm.rings[r].seg].linked
           ELSE shm'.segs = shm.segs

\* close of a closed ring changes nothing
CloseClosed(r, unlink) ==
    (ring_close_call(r, unlink) /\ shm.rings[r].closed) =>
        /\ shm'.rings = shm.rings
        /\ shm'.segs = shm.segs

\* a call on a closed ring raises and stores nothing
FailsAfterClose(r) ==
    shm.rings[r].closed =>
        /\ \A n \in RequiredLens :
              ring_write_next(r, n) =>
                  /\ shm'.exc = RuntimeError("write_next")
                  /\ host'.pc = "idle"
                  /\ shm'.segs = shm.segs
        /\ \A i \in SlotArgs, n \in RequiredLens :
              ring_write_slot(r, i, n) =>
                  /\ shm'.exc = RuntimeError("write_slot")
                  /\ host'.pc = "idle"
                  /\ shm'.segs = shm.segs
        /\ \A i \in SlotArgs, n \in RequiredLens :
              ring_read_slot(r, i, n) =>
                  /\ shm'.exc = RuntimeError("read_slot")
                  /\ shm'.ret = -1

OwnerReleases ==
    \A r \in 1..Len(shm.rings) :
        /\ \A unlink \in BOOLEAN : CloseOpen(r, unlink) /\ CloseClosed(r, unlink)
        /\ FailsAfterClose(r)

\* C30: close(unlink=True) of a ring that attached to an existing segment closes
\* the ring and never unlinks the segment, close(unlink=True) of the owner
\* unlinks it, a second close does nothing, and write_slot, write_next and
\* read_slot of a closed ring fail
C30_OwnerReleases == [][OwnerReleases]_vars

\* a ring attached to the owner's segment is closed, the segment is still
\* linked, and a write_next of the closed ring has failed
C30_Witness ==
    /\ Len(shm.rings) = 2
    /\ shm.rings[1].owner /\ ~shm.rings[1].closed
    /\ ~shm.rings[2].owner /\ shm.rings[2].closed
    /\ shm.rings[2].seg = shm.rings[1].seg
    /\ shm.segs[shm.rings[1].seg].linked
    /\ shm.exc = RuntimeError("write_next")

-----------------------------------------------------------------------------
(* messages.py and msgpack_compat.py: the control messages and their bytes *)

\* dict operations: key in d, d.get(key), d[key] = value, len(d)
Has(d, key) == \E i \in 1..(Len(d.items) \div 2) : d.items[2 * i - 1] = key
Get(d, key) ==
    IF Has(d, key)
    THEN d.items[2 * (CHOOSE i \in 1..(Len(d.items) \div 2) : d.items[2 * i - 1] = key)]
    ELSE PyNone
Set(d, key, value) ==
    IF Has(d, key)
    THEN LET i == CHOOSE i \in 1..(Len(d.items) \div 2) : d.items[2 * i - 1] = key
         IN PyDict([d.items EXCEPT ![2 * i] = value])
    ELSE PyDict(d.items \o <<key, value>>)
DictLen(d) == Len(d.items) \div 2

\* The bytes of a message: one element for each marker byte, and one for the
\* bytes that follow a marker (the utf-8 of a str, the big-endian of an int).
\* The strs of the runs are shorter than 32 bytes: marker 0xA0 | length stands
\* as 0xA0 with the length in the body.
Marker(m) == [m |-> m, s |-> ""]
StrBody(s) == [m |-> -1, s |-> s]
IntBody(n) == [m |-> n, s |-> "int"]

\* msgpack_compat.py:59-80  _encode_int (the ints of the runs fit in 32 bits)
encode_int(value) ==
    IF 0 <= value /\ value <= 127 THEN <<Marker(value)>>
    ELSE IF -32 <= value /\ value < 0 THEN <<Marker(value + 256)>>
    ELSE IF 0 <= value /\ value <= 255 THEN <<Marker(204), IntBody(value)>>
    ELSE IF 0 <= value /\ value <= 65535 THEN <<Marker(205), IntBody(value)>>
    ELSE IF 0 <= value THEN <<Marker(206), IntBody(value)>>
    ELSE IF -128 <= value THEN <<Marker(208), IntBody(value)>>
    ELSE IF -32768 <= value THEN <<Marker(209), IntBody(value)>>
    ELSE <<Marker(210), IntBody(value)>>

RECURSIVE msgpack_encode(_)
RECURSIVE encode_all(_)
\* b"".join(_encode(v) for v in values)
encode_all(values) ==
    IF values = <<>> THEN <<>>
    ELSE msgpack_encode(Head(values)) \o encode_all(Tail(values))

\* msgpack_compat.py:37-56, 83-133  _encode, for lists and dicts of up to 15
msgpack_encode(obj) ==
    CASE obj.t = "none" -> <<Marker(192)>>
      [] obj.t = "bool" -> <<Marker(IF obj.n = 1 THEN 195 ELSE 194)>>
      [] obj.t = "int" -> encode_int(obj.n)
      [] obj.t = "str" -> <<Marker(160), StrBody(obj.s)>>
      [] obj.t = "list" -> <<Marker(144 + Len(obj.items))>> \o encode_all(obj.items)
      [] obj.t = "dict" -> <<Marker(128 + DictLen(obj))>> \o encode_all(obj.items)

\* what _decode gives: the value, the bytes left, and whether it raised
Decoded(value, rest) == [ok |-> TRUE, value |-> value, rest |-> rest]
DecodeRaised == [ok |-> FALSE, value |-> PyNone, rest |-> <<>>]

RECURSIVE msgpack_decode(_)
RECURSIVE decode_items(_, _, _)
\* [_decode(reader) for _ in range(length)]
decode_items(data, length, items) ==
    IF length = 0 THEN Decoded(PyList(items), data)
    ELSE LET d == msgpack_decode(data)
         IN IF ~d.ok THEN DecodeRaised
            ELSE decode_items(d.rest, length - 1, Append(items, d.value))

RECURSIVE dict_of(_, _)
\* msgpack_compat.py:202-208  result[key] = value for the pairs in turn; a list
\* or a dict is no key (TypeError)
dict_of(items, result) ==
    IF items = <<>> THEN Decoded(result, <<>>)
    ELSE IF items[1].t \in {"list", "dict"} THEN DecodeRaised
    ELSE dict_of(Tail(Tail(items)), Set(result, items[1], items[2]))

\* msgpack_compat.py:136-199  _decode
msgpack_decode(data) ==
    IF data = <<>> THEN DecodeRaised
    ELSE LET marker == Head(data).m
             rest == Tail(data)
             body(t) == IF rest = <<>> THEN DecodeRaised
                        ELSE IF t = "str" THEN Decoded(PyStr(Head(rest).s), Tail(rest))
                        ELSE Decoded(PyInt(Head(rest).m), Tail(rest))
         IN IF marker < 0 THEN DecodeRaised
            ELSE IF marker <= 127 THEN Decoded(PyInt(marker), rest)
            ELSE IF marker >= 224 THEN Decoded(PyInt(marker - 256), rest)
            ELSE IF 160 <= marker /\ marker <= 191 THEN body("str")
            ELSE IF 144 <= marker /\ marker <= 159
                 THEN decode_items(rest, marker - 144, <<>>)
            ELSE IF 128 <= marker /\ marker <= 143
                 THEN LET d == decode_items(rest, 2 * (marker - 128), <<>>)
                      IN IF ~d.ok THEN DecodeRaised
                         ELSE LET r == dict_of(d.value.items, PyDict(<<>>))
                              IN IF r.ok THEN Decoded(r.value, d.rest) ELSE DecodeRaised
            ELSE IF marker = 192 THEN Decoded(PyNone, rest)
            ELSE IF marker = 194 THEN Decoded(PyBool(FALSE), rest)
            ELSE IF marker = 195 THEN Decoded(PyBool(TRUE), rest)
            ELSE IF marker \in {204, 205, 206, 208, 209, 210} THEN body("int")
            ELSE DecodeRaised

\* msgpack_compat.py:7-10  packb
packb(obj) == msgpack_encode(obj)

\* msgpack_compat.py:13-20  unpackb: bytes left over are an error
unpackb(payload) ==
    LET d == msgpack_decode(payload)
    IN IF d.ok /\ d.rest = <<>> THEN d ELSE DecodeRaised

\* messages.py:57  _CONTROL_MESSAGE_INDEX_TO_TYPE: the type of index i is the
\* element i + 1
CONTROL_MESSAGE_INDEX_TO_TYPE ==
    <<"hello", "hello_ack", "start_stream", "stop_stream", "frame_meta", "ack",
      "error", "heartbeat">>

\* messages.py:58-77  _PAYLOAD_FIELDS_BY_TYPE
PAYLOAD_FIELDS_BY_TYPE(message_type) ==
    CASE message_type = "hello" ->
           <<"magic", "protocolVersion", "capabilities", "clientName", "clientVersion">>
      [] message_type = "hello_ack" ->
           <<"accepted", "serverVersion", "selectedTransport", "reason">>
      [] message_type = "start_stream" -> <<"streamId">>
      [] message_type = "stop_stream" -> <<"reason">>
      [] message_type = "frame_meta" ->
           <<"frameId", "width", "height", "stride", "pixelFormat", "transport",
             "shmSlot", "chunkSize", "timestampMs">>
      [] message_type = "ack" -> <<"frameId">>
      [] message_type = "error" -> <<"code", "message">>
      [] message_type = "heartbeat" -> <<"timestampMs">>

\* value.strip().lower() of the strs of the runs
strip_lower(value) ==
    CASE value = " Hello " -> "hello"
      [] value = "ACK" -> "ack"
      [] value = "Shared-Memory" -> "shared-memory"
      [] value = "TCP_LZ4 " -> "tcp_lz4"
      [] OTHER -> value

IsType(name) == name \in CONTROL_MESSAGE_TYPES

\* messages.py:80-86  _type_from_compact: the type's name, "" for None.  A bool
\* is an instance of int in Python, so False and True are indices 0 and 1.
type_from_compact(value) ==
    IF value.t = "str"
    THEN IF IsType(strip_lower(value.s)) THEN strip_lower(value.s) ELSE ""
    ELSE IF value.t \in {"int", "bool"}
    THEN IF 0 <= value.n /\ value.n < Len(CONTROL_MESSAGE_INDEX_TO_TYPE)
         THEN CONTROL_MESSAGE_INDEX_TO_TYPE[value.n + 1] ELSE ""
    ELSE ""

\* messages.py:89-104  _normalize_transport_value, of a Python object
normalize_transport_object(value) ==
    IF value.t = "str"
    THEN IF value.s \in {BRIDGE_TRANSPORT_SHM, BRIDGE_TRANSPORT_TCP_LZ4} THEN value
         ELSE IF strip_lower(value.s) \in {"shm", "shared_memory", "shared-memory"}
         THEN PyStr(BRIDGE_TRANSPORT_SHM)
         ELSE IF strip_lower(value.s) \in {"tcp_lz4", "tcp-lz4", "tcplz4"}
         THEN PyStr(BRIDGE_TRANSPORT_TCP_LZ4)
         ELSE value
    ELSE IF value.t \in {"int", "bool"}
    THEN IF value.n = 0 THEN PyStr(BRIDGE_TRANSPORT_SHM)
         ELSE IF value.n = 1 THEN PyStr(BRIDGE_TRANSPORT_TCP_LZ4)
         ELSE value
    ELSE value

\* what a normalizing function gives: the value, or the error it raised
Normal(value) == [exc |-> NoExc, value |-> value]
Mismatch(site) == [exc |-> BridgeProtocolError(E_PROTO_MISMATCH, site), value |-> PyNone]

RECURSIVE by_position(_, _, _, _)
\* messages.py:116-119  normalized[field_name] = payload[idx] while idx < len(payload)
by_position(field_names, payload, idx, normalized) ==
    IF idx > Len(field_names) \/ idx > Len(payload) THEN normalized
    ELSE by_position(field_names, payload, idx + 1,
                     Set(normalized, PyStr(field_names[idx]), payload[idx]))

\* messages.py:107-127  _normalize_payload
normalize_payload(message_type, payload) ==
    IF payload.t = "none" THEN Normal(PyDict(<<>>))
    ELSE IF payload.t \notin {"dict", "list"} THEN Mismatch("payload")
    ELSE LET normalized ==
                 IF payload.t = "dict" THEN payload
                 ELSE by_position(PAYLOAD_FIELDS_BY_TYPE(message_type),
                                  payload.items, 1, PyDict(<<>>))
         IN IF message_type = "hello_ack"
            THEN Normal(Set(normalized, PyStr("selectedTransport"),
                            normalize_transport_object(
                                Get(normalized, PyStr("selectedTransport")))))
            ELSE IF message_type = "frame_meta"
            THEN Normal(Set(normalized, PyStr("transport"),
                            normalize_transport_object(
                                Get(normalized, PyStr("transport")))))
            ELSE Normal(normalized)

\* {"type": message_type, "payload": payload}
ControlMessage(message_type, payload) ==
    PyDict(<<PyStr("type"), PyStr(message_type), PyStr("payload"), payload>>)

\* messages.py:137, 143, 149  the canonical message of a known type
Canonical(message_type, payload) ==
    LET p == normalize_payload(message_type, payload)
    IN IF p.exc # NoExc THEN p ELSE Normal(ControlMessage(message_type, p.value))

\* messages.py:130-151  _normalize_control_message
normalize_control_message(message) ==
    IF message.t = "dict" /\ Has(message, PyStr("type"))
    THEN LET message_type == type_from_compact(Get(message, PyStr("type")))
         IN IF message_type = "" THEN Mismatch("type")
            ELSE Canonical(message_type, Get(message, PyStr("payload")))
    ELSE IF message.t = "dict" /\ DictLen(message) = 1
            /\ type_from_compact(message.items[1]) # ""
    THEN Canonical(type_from_compact(message.items[1]), message.items[2])
    ELSE IF message.t = "list" /\ Len(message.items) = 2
            /\ type_from_compact(message.items[1]) # ""
    THEN Canonical(type_from_compact(message.items[1]), message.items[2])
    ELSE Mismatch("structure")

\* messages.py:168-182  encode_control_message; the messages of the runs are far
\* shorter than MAX_CONTROL_MESSAGE_BYTES and hold nothing packb refuses
encode_control_message(message) == packb(message)

\* messages.py:185-194  decode_control_message
decode_control_message(payload) ==
    LET message == unpackb(payload)
    IN IF ~message.ok THEN Mismatch("unpackb")
       ELSE normalize_control_message(message.value)

\* Optional[str] and Optional[int] arguments: "" and NoInt stand for None
OptStr(x) == IF x = "" THEN PyNone ELSE PyStr(x)
OptInt(x) == IF x = NoInt THEN PyNone ELSE PyInt(x)

\* messages.py:212-226  build_hello, with the default capabilities
build_hello(client_name, client_version) ==
    ControlMessage("hello", PyDict(<<
        PyStr("magic"), PyStr("SUTU_BRIDGE_V2"),
        PyStr("protocolVersion"), PyInt(2),
        PyStr("capabilities"),
            PyList(<<PyStr("shm_ring"), PyStr("tcp_lz4"), PyStr("chunked_frame")>>),
        PyStr("clientName"), PyStr(client_name),
        PyStr("clientVersion"), PyStr(client_version)>>))

\* a hello_ack as the peer builds it (messages.py:60, 311-316)
build_hello_ack(accepted, server_version, selected_transport, reason) ==
    ControlMessage("hello_ack", PyDict(<<
        PyStr("accepted"), PyBool(accepted),
        PyStr("serverVersion"), OptStr(server_version),
        PyStr("selectedTransport"), OptStr(selected_transport),
        PyStr("reason"), OptStr(reason)>>))

\* messages.py:229-235  build_start_stream
build_start_stream(stream_id) ==
    ControlMessage("start_stream", PyDict(<<PyStr("streamId"), OptStr(stream_id)>>))

\* messages.py:238-244  build_stop_stream
build_stop_stream(reason) ==
    ControlMessage("stop_stream", PyDict(<<PyStr("reason"), OptStr(reason)>>))

\* messages.py:247-271  build_frame_meta, with the default pixel format
build_frame_meta(frame_id, width, height, stride, transport, timestamp_ms, shm_slot, chunk_size) ==
    ControlMessage("frame_meta", PyDict(<<
        PyStr("frameId"), PyInt(frame_id),
        PyStr("width"), PyInt(width),
        PyStr("height"), PyInt(height),
        PyStr("stride"), PyInt(stride),
        PyStr("pixelFormat"), PyStr("rgba8"),
        PyStr("transport"), PyStr(transport),
        PyStr("shmSlot"), OptInt(shm_slot),
        PyStr("chunkSize"), OptInt(chunk_size),
        PyStr("timestampMs"), PyInt(timestamp_ms)>>))

\* messages.py:274-280  build_ack
build_ack(frame_id) == ControlMessage("ack", PyDict(<<PyStr("frameId"), PyInt(frame_id)>>))

\* messages.py:283-290  build_error
build_error(code, message) ==
    ControlMessage("error", PyDict(<<PyStr("code"), PyStr(code),
                                     PyStr("message"), PyStr(message)>>))

\* messages.py:293-299  build_heartbeat
build_heartbeat(timestamp_ms) ==
    ControlMessage("heartbeat", PyDict(<<PyStr("timestampMs"), PyInt(timestamp_ms)>>))

\* the messages of the runs: every builder, with and without its optional
\* arguments, with ints of every width of _encode_int up to 32 bits
Built ==
    {build_hello("blender", "1.0"),
     build_hello_ack(TRUE, "1.0", BRIDGE_TRANSPORT_SHM, ""),
     build_hello_ack(TRUE, "1.0", BRIDGE_TRANSPORT_TCP_LZ4, ""),
     build_hello_ack(FALSE, "", "", "busy"),
     build_start_stream(""), build_start_stream("s1"),
     build_stop_stream(""), build_stop_stream("user"),
     build_frame_meta(1, 4, 4, 16, BRIDGE_TRANSPORT_SHM, 1000, 0, NoInt),
     build_frame_meta(300, 128, 64, 512, BRIDGE_TRANSPORT_TCP_LZ4, 70000, NoInt, 200),
     build_ack(1), build_ack(127), build_ack(128), build_ack(65536),
     build_error("E_SOCKET_IO", "reset"),
     build_heartbeat(0), build_heartbeat(1000), build_heartbeat(-1),
     build_heartbeat(-33), build_heartbeat(-129), build_heartbeat(-32769)}

TypeOf(message) == Get(message, PyStr("type")).s
PayloadOf(message) == Get(message, PyStr("payload"))

\* the index of a type in _CONTROL_MESSAGE_TYPES
IndexOf(message_type) ==
    (CHOOSE i \in 1..Len(CONTROL_MESSAGE_INDEX_TO_TYPE) :
        CONTROL_MESSAGE_INDEX_TO_TYPE[i] = message_type) - 1

\* the payload as the list of its fields' values in the order of the table
Positional(message) ==
    LET field_names == PAYLOAD_FIELDS_BY_TYPE(TypeOf(message))
    IN PyList([i \in 1..Len(field_names) |->
                 Get(PayloadOf(message), PyStr(field_names[i]))])

\* the wire shapes of a message
Shapes == {"canonical", "compact", "compact_list", "name", "name_list",
           "index", "index_list"}

Shaped(message, shape) ==
    CASE shape = "canonical" -> message
      [] shape = "compact" ->
           PyDict(<<PyStr(TypeOf(message)), PayloadOf(message)>>)
      [] shape = "compact_list" ->
           PyDict(<<PyStr(TypeOf(message)), Positional(message)>>)
      [] shape = "name" -> PyList(<<PyStr(TypeOf(message)), PayloadOf(message)>>)
      [] shape = "name_list" -> PyList(<<PyStr(TypeOf(message)), Positional(message)>>)
      [] shape = "index" ->
           PyList(<<PyInt(IndexOf(TypeOf(message))), PayloadOf(message)>>)
      [] shape = "index_list" ->
           PyList(<<PyInt(IndexOf(TypeOf(message))), Positional(message)>>)

\* type tokens that are neither the name nor the index of a type
UnknownTokens ==
    {PyStr("bye"), PyStr(""), PyInt(8), PyInt(-1), PyNone, PyBool(TRUE), PyBool(FALSE)}

\* a message of an unknown type, in the three shapes
Unknown(token, shape) ==
    CASE shape = "canonical" ->
           PyDict(<<PyStr("type"), token, PyStr("payload"), PyDict(<<>>)>>)
      [] shape = "compact" -> PyDict(<<token, PyDict(<<>>)>>)
      [] shape = "name" -> PyList(<<token, PyDict(<<>>)>>)

\* what is given to encode_control_message in a run
CodecInputs ==
    {[msg |-> Shaped(m, shape), form |-> shape, expect |-> m] :
        m \in Built, shape \in Shapes}
    \cup {[msg |-> Unknown(token, shape), form |-> "unknown", expect |-> PyNone] :
             token \in UnknownTokens, shape \in {"canonical", "compact", "name"}}

InitCodecRun ==
    /\ client = InitClient
    /\ send_queue = <<>>
    /\ worker = InitWorker
    /\ host = InitHost
    /\ net = InitNet
    /\ sender = InitSender
    /\ framing = InitFraming
    /\ shm = InitShm
    /\ ghost = InitGhost
    /\ \E input \in CodecInputs :
         codec = [InitCodec EXCEPT !.msg = input.msg, !.form = input.form,
                                   !.expect = input.expect]

\* the sender's side: encode_control_message(message)
CodecEncode ==
    /\ codec.pc = "idle"
    /\ codec' = [codec EXCEPT !.pc = "encoded",
                               !.packed = encode_control_message(codec.msg)]
    /\ UNCHANGED <<client, send_queue, worker, host, net, sender, ghost, framing, shm>>

\* the receiver's side: decode_control_message(payload)
CodecDecode ==
    /\ codec.pc = "encoded"
    /\ LET m == decode_control_message(codec.packed)
       IN codec' = [codec EXCEPT !.pc = "decoded", !.decoded = m.value, !.exc = m.exc]
    /\ UNCHANGED <<client, send_queue, worker, host, net, sender, ghost, framing, shm>>

NextCodec == CodecEncode \/ CodecDecode

SpecCodec == InitCodecRun /\ [][NextCodec]_vars

\* two dicts hold the same keys with the same values
SameDict(a, b) ==
    /\ a.t = "dict" /\ b.t = "dict"
    /\ DictLen(a) = DictLen(b)
    /\ \A i \in 1..DictLen(a) :
         Has(b, a.items[2 * i - 1]) /\ Get(b, a.items[2 * i - 1]) = a.items[2 * i]

\* two canonical messages of the same type and the same field values
SameMessage(a, b) ==
    /\ a.t = "dict" /\ DictLen(a) = 2
    /\ Get(a, PyStr("type")) = Get(b, PyStr("type"))
    /\ SameDict(Get(a, PyStr("payload")), Get(b, PyStr("payload")))

\* C31: what every builder builds decodes, after encoding, to the canonical
\* message of the same type and field values, from the canonical shape, from
\* the single-key shape and from the 2-element sequence with the type's index or
\* name, with the payload as a dict or as a positional list; a type token that
\* is no type fails with E_PROTO_MISMATCH
C31_RoundTrip ==
    codec.pc = "decoded" =>
        IF codec.form = "unknown"
        THEN codec.exc = BridgeProtocolError(E_PROTO_MISMATCH, codec.exc.site)
        ELSE codec.exc = NoExc /\ SameMessage(codec.decoded, codec.expect)

\* the round trips alone, of the messages the builders build
C31_BuiltRoundTrip ==
    (codec.pc = "decoded" /\ codec.form # "unknown") =>
        (codec.exc = NoExc /\ SameMessage(codec.decoded, codec.expect))

\* the unknown tokens that are not bools fail
C31_UnknownFails ==
    (codec.pc = "decoded" /\ codec.form = "unknown"
        /\ \A i \in 1..Len(codec.msg.items) : codec.msg.items[i].t # "bool") =>
        codec.exc = BridgeProtocolError(E_PROTO_MISMATCH, codec.exc.site)

-----------------------------------------------------------------------------
(* The session id                                                          *)

\* the counter moves by one step up, and only when the state becomes streaming
SessionCounted ==
    /\ client'.session_counter >= client.session_counter
    /\ client'.session_counter # client.session_counter =>
          /\ client'.session_counter = client.session_counter + 1
          /\ client'.state = "streaming"
    /\ (client.state # "streaming" /\ client'.state = "streaming") =>
          client'.session_counter = client.session_counter + 1

\* what get_status exposes as session_id while streaming is the counter
SessionExposed ==
    client.state = "streaming" => client.active_session_id = client.session_counter

\* C32: session_counter grows by exactly 1 each time the state becomes
\* streaming and at no other step, never decreases, and the session id exposed
\* while streaming is the counter, so two sessions never expose the same id
C32_SessionId == []SessionExposed /\ [][SessionCounted]_vars

\* the second session is streaming under the id 2
C32_Witness ==
    /\ client.state = "streaming"
    /\ client.session_counter = 2
    /\ client.active_session_id = 2

-----------------------------------------------------------------------------
(* The edges of the connection state                                       *)

StateEdges ==
    {<<"disabled", "listening">>, <<"listening", "handshaking">>,
     <<"handshaking", "streaming">>, <<"handshaking", "recovering">>,
     <<"streaming", "recovering">>, <<"streaming", "listening">>,
     <<"recovering", "listening">>}
    \cup {<<from, "disabled">> : from \in States}

EdgeFollowed ==
    client'.state # client.state => <<client.state, client'.state>> \in StateEdges

\* C33: every change of the connection state is disabled->listening,
\* listening->handshaking, handshaking->streaming, handshaking->recovering,
\* streaming->recovering, streaming->listening, recovering->listening or
\* any->disabled, for every interleaving of host calls with worker steps
C33_StateEdges == [][EdgeFollowed]_vars

----------------------------------------------------------------------------
(* Acks: the host enqueues frame_meta messages with the ids 1..MaxIds      *)
(* while the worker streams to a peer that sends acks with any frameId,    *)
(* of a frame in flight or not, zero and negative included.                *)

AckIds == {-1, 0} \cup FrameIds

InitAcks ==
    /\ client = InitClient
    /\ send_queue = <<>>
    /\ worker = InitWorker
    /\ host = InitHost
    /\ net = InitNet
    /\ sender = InitSender
    /\ framing = InitFraming
    /\ shm = InitShm
    /\ codec = InitCodec
    /\ ghost = [InitGhost EXCEPT !.acking = TRUE]

NextAcks ==
    \/ worker_main_loop \/ worker_main_snapshot \/ worker_main_listening
    \/ run_session_handshaking \/ run_session_connect
    \/ WorkerSession \/ HostEnable
    \/ \E frame_id \in FrameIds : enqueue_control_message("frame_meta", frame_id)
    \/ HostEnqueueFull \/ enqueue_register
    \/ PeerSend(HelloAckTcp)
    \/ \E frame_id \in AckIds : PeerSend(Msg("ack", FALSE, None, "", "", frame_id, 0, 0))

SpecAcks == InitAcks /\ [][NextAcks]_vars

\* the frames sock.recv has returned to the step
ReadChunk == SubSeq(net.inbox, 1, Len(net.inbox) - Len(net'.inbox))

\* the ids of the inflight set
Inflight(c) == {c.inflight[i] : i \in 1..Len(c.inflight)}

\* the sequence s with its entry f taken out, the others in their order
Without(s, f) ==
    IF \E i \in 1..Len(s) : s[i] = f
    THEN LET i == CHOOSE i \in 1..Len(s) : s[i] = f /\ \A j \in 1..(i - 1) : s[j] # f
         IN SubSeq(s, 1, i - 1) \o SubSeq(s, i + 1, Len(s))
    ELSE s

AckHandled ==
    (/\ run_session_read
     /\ Len(net'.inbox) = Len(net.inbox) - 1
     /\ Head(net.inbox).kind = "ack") =>
        LET f == Head(net.inbox).fid
        IN /\ worker'.pc = "ss_hb_check"
           /\ client' = [client EXCEPT !.inflight = client'.inflight]
           /\ IF f > 0 /\ f \in Inflight(client)
              THEN client'.inflight = Without(client.inflight, f)
              ELSE client'.inflight = client.inflight

\* C34: an ack with frameId f > 0 read while streaming takes f out of the
\* inflight set and leaves the other ids and their order as they were; an ack
\* whose frameId is not in the set, or is zero or negative, leaves the set as it
\* was; neither ends the session nor changes anything else of the client.
C34_AckHandled == [][AckHandled]_vars

\* 1, 2 and 3 were in flight and the ack of 2 was read
C34_Witness ==
    /\ ghost.acked = {2}
    /\ client.inflight = <<1, 3>>
    /\ client.state = "streaming"

----------------------------------------------------------------------------
(* Frame ids: two threads call send_rgba_frame at the same time, each call *)
(* in the steps of frame_sender.py:96-98, while the host starts and stops  *)
(* the stream and the worker connects, streams and reconnects.             *)

MaxCallFrames == 2

\* frame_sender.py:96 without the lock
lock_free_always(s) == TRUE

\* frame_sender.py:96  with self._lock: the lock can be taken
lock_free(s) == s.lock = 0

\* the largest id of a sequence of ids, 0 for none
RECURSIVE MaxOf(_)
MaxOf(ids) ==
    IF ids = <<>> THEN 0
    ELSE LET m == MaxOf(Tail(ids)) IN IF Head(ids) > m THEN Head(ids) ELSE m

\* calls in progress
InProgress == Cardinality({t \in Callers : sender.calls[t].pc # "idle"})

\* frame_sender.py:82-95  the call passes its checks
call_begin(t) ==
    /\ sender.calls[t].pc = "idle"
    /\ sender.streaming
    /\ Len(sender.returned) + InProgress < MaxCallFrames
    /\ sender' = [sender EXCEPT !.calls[t] = [NoCall EXCEPT
                                   !.pc = "lock", !.seen = MaxOf(sender.returned)]]
    /\ UNCHANGED <<client, send_queue, worker, host, net, ghost, framing, shm, codec>>

\* frame_sender.py:96-97  with self._lock: self._frame_id += 1: the lock is
\* taken and the attribute loaded
call_lock(t) ==
    /\ sender.calls[t].pc = "lock"
    /\ lock_free(sender)
    /\ sender' = [sender EXCEPT !.lock = t, !.calls[t].tmp = sender.frame_id,
                                !.calls[t].pc = "store"]
    /\ UNCHANGED <<client, send_queue, worker, host, net, ghost, framing, shm, codec>>

\* frame_sender.py:97  self._frame_id += 1: the sum is stored
call_store(t) ==
    /\ sender.calls[t].pc = "store"
    /\ sender' = [sender EXCEPT !.frame_id = sender.calls[t].tmp + 1,
                                !.calls[t].pc = "read"]
    /\ UNCHANGED <<client, send_queue, worker, host, net, ghost, framing, shm, codec>>

\* frame_sender.py:98, 163  frame_id = self._frame_id, the lock is released and
\* the call returns frame_id
call_read(t) ==
    /\ sender.calls[t].pc = "read"
    /\ sender' = [sender EXCEPT !.returned = Append(sender.returned, sender.frame_id),
                                !.calls[t] = NoCall,
                                !.lock = IF sender.lock = t THEN 0 ELSE sender.lock]
    /\ UNCHANGED <<client, send_queue, worker, host, net, ghost, framing, shm, codec>>

NextFrameIds ==
    \/ WorkerLoop \/ WorkerSession \/ HostEnable
    \/ start_stream \/ start_stream_set \/ stop_stream \/ stop_stream_set
    \/ HostEnqueueFull
    \/ \E t \in Callers : call_begin(t) \/ call_lock(t) \/ call_store(t) \/ call_read(t)
    \/ PeerSend(HelloAckTcp)
    \/ PeerClose("fin")

SpecFrameIds == Init /\ [][NextFrameIds]_vars

\* the ids the calls have returned
Returned == {sender.returned[i] : i \in 1..Len(sender.returned)}

\* no id was returned twice, and the ids returned are 1, 2, ... without a gap
IdsFresh ==
    /\ \A i, j \in 1..Len(sender.returned) : i # j => sender.returned[i] # sender.returned[j]
    /\ (\A t \in Callers : sender.calls[t].pc # "read") => Returned = 1..sender.frame_id

\* a call returns an id larger than every id returned before the call began
IdsIncrease ==
    \A t \in Callers : call_read(t) => sender.frame_id > sender.calls[t].seen

\* C35: the ids send_rgba_frame returns start at 1 and each call returns an id
\* larger than every id returned before it began; no id is returned twice, by
\* two calls at the same time neither; and no step, a stop or start of the
\* stream or a reconnection of the worker included, lowers the counter.
C35_FrameIds ==
    /\ []IdsFresh
    /\ [][IdsIncrease /\ sender'.frame_id >= sender.frame_id]_vars

\* a call has returned 1 in the first session; the stream was stopped and
\* started again and the worker has reconnected; the second call, begun after
\* the first had returned, has stored 2 and holds the lock
C35_Witness ==
    /\ sender.returned = <<1>>
    /\ client.session_counter = 2
    /\ \E t \in Callers : sender.calls[t] = [pc |-> "read", tmp |-> 1, seen |-> 1]
    /\ sender.frame_id = 2

----------------------------------------------------------------------------
(* The frame_meta of a frame on shm: the stream on shm while the system    *)
(* runs out of room for new segments and gets it back.                     *)

\* the system runs out of room for segments, or has room again
ShmSpace ==
    /\ shm' = [shm EXCEPT !.no_space = ~shm.no_space]
    /\ UNCHANGED <<client, send_queue, worker, host, net, sender, ghost, framing, codec>>

NextShmSend ==
    \/ start_stream \/ start_stream_set \/ stop_stream \/ stop_stream_set
    \/ \E n \in RequiredLens : send_rgba_frame_shm(n)
    \/ write_slot_store \/ send_rgba_frame_shm_meta \/ send_rgba_frame_return
    \/ HostEnqueueFull
    \/ ShmSpace

SpecShmSend == Init /\ [][NextShmSend]_vars

\* the buffers of the queue and of the queue after the step
Queued(q) == {q[i] : i \in 1..Len(q)}

\* the slot of the active ring's segment
ActiveSlot(slot) == shm.segs[shm.rings[shm.shm_ring].seg].slots[slot]

\* the step enqueues no frame_meta but one whose frame write_next has committed
\* to the slot the frame_meta names, and no binary chunk
MetaAfterCommit ==
    \A m \in Queued(send_queue') \ Queued(send_queue) :
        /\ m.kind # "chunk"
        /\ m.kind = "frame_meta" =>
             /\ shm.shm_ring # 0
             /\ shm.writer = NoWriter
             /\ shm.exc = NoExc
             /\ m.slot = shm.ret
             /\ m.slot \in 0..(DEFAULT_RING_SLOTS - 1)
             /\ ActiveSlot(m.slot).fid = m.fid
             /\ ActiveSlot(m.slot).p1 = m.fid /\ ActiveSlot(m.slot).p2 = m.fid
             /\ ActiveSlot(m.slot).seq % 2 = 0
             /\ ActiveSlot(m.slot).seq > 0

\* the ring or the write has raised: the call is over and no frame_meta of its
\* frame is in the queue
NoMetaOfFailed ==
    shm.exc # NoExc =>
        /\ host.pc # "srf_shm_meta"
        /\ \A m \in Queued(send_queue) : m.kind = "frame_meta" => m.fid # sender.frame_id

\* C36: on shm the frame_meta of frame f is enqueued only after write_next has
\* committed f (the even seq stored last), its shmSlot is the slot written, and
\* nothing of f is enqueued as a binary chunk; if the ring cannot be created or
\* attached, or the write fails, no frame_meta of f is enqueued.
C36_MetaAfterCommit == []NoMetaOfFailed /\ [][MetaAfterCommit]_vars

\* frame 1 was written to slot 0 and announced; the ring of frame 2, of another
\* size, could not be created
C36_Witness ==
    /\ shm.exc = OSError("init")
    /\ sender.frame_id = 2
    /\ send_queue = <<Item("start_stream", 0, -1, 0), Item("frame_meta", 1, 0, 0)>>

----------------------------------------------------------------------------
(* The target-size hint: the worker streams to a peer whose heartbeats     *)
(* carry any value as targetWidth and targetHeight; a session that fails   *)
(* is followed by a new handshake.                                         *)

\* values of targetWidth / targetHeight: absent, booleans, a string, integers
\* and floats (0.5, 4.0, 4.5, -1.5, inf, nan)
HintValues ==
    {PyNone, PyBool(TRUE), PyBool(FALSE), PyStr("640"),
     PyInt(0), PyInt(-1), PyInt(4), PyInt(8),
     PyFloat(5), PyFloat(40), PyFloat(45), PyFloat(-15), PyInf, PyNan}

\* the two values of a heartbeat: one of them is any value
HintPairs == {<<v, PyNone>> : v \in HintValues} \cup {<<PyInt(4), v>> : v \in HintValues}

Heartbeat(tw, th) ==
    [Msg("heartbeat", FALSE, None, "", "", 0, 0, 0) EXCEPT !.tw = tw, !.th = th]

NextHint ==
    \/ WorkerLoop \/ WorkerSession \/ HostEnable
    \/ PeerSend(HelloAckTcp)
    \/ \E h \in HintPairs : PeerSend(Heartbeat(h[1], h[2]))
    \/ PeerClose("fin")

SpecHint == Init /\ [][NextHint]_vars

\* the value is a number above zero
PositiveNumeric(v) ==
    \/ v.t = "int" /\ v.n > 0
    \/ v.t = "float" /\ (v.n > 0 \/ v.s = "inf")

\* what get_stream_target_size_hint returns for a dimension is the value v
Exposes(hint, v) ==
    \/ v.t = "none" /\ hint = NoInt
    \/ v.t = "int" /\ hint = v.n /\ hint # NoInt
    \/ v.t = "float" /\ v.s = "" /\ hint * 10 = v.n /\ hint # NoInt

\* the hint a dimension has after a heartbeat with the value v
HintOf(hint, v) == IF PositiveNumeric(v) THEN Exposes(hint, v) ELSE hint = NoInt

HintFollowsHeartbeat ==
    (/\ run_session_read
     /\ Len(net'.inbox) = Len(net.inbox) - 1
     /\ Head(net.inbox).kind = "heartbeat") =>
        /\ HintOf(client'.target_hint[1], Head(net.inbox).tw)
        /\ HintOf(client'.target_hint[2], Head(net.inbox).th)

HintClearedByHandshake ==
    (client.state # "streaming" /\ client'.state = "streaming") =>
        client'.target_hint = <<NoInt, NoInt>>

\* C37: after a heartbeat with a positive numeric targetWidth / targetHeight
\* is read while streaming, get_stream_target_size_hint returns exactly those
\* values; a missing, non-numeric, boolean or non-positive value is exposed as
\* None for its dimension; and the hint is (None, None) right after each
\* handshake.
C37_TargetHint == [][HintFollowsHeartbeat /\ HintClearedByHandshake]_vars

----------------------------------------------------------------------------
(* Producers: the host thread enqueues control messages and binary chunks  *)
(* while a second thread enqueues too and the worker streams and flushes   *)
(* the queue.                                                              *)

\* client.py:190-193  _enqueue_frame_bytes of a second thread: its put_nowait
\* finds room in the queue
producer_put ==
    /\ Len(send_queue) < client.maxsize
    /\ send_queue' = Append(send_queue, Item("chunk", 0, -1, 0))
    /\ UNCHANGED <<client, worker, host, net, sender, ghost, framing, shm, codec>>

\* the steps of the host thread inside enqueue_control_message and
\* enqueue_binary_chunk
EnqueueStep ==
    \/ \E fid \in 0..MaxFrameId : enqueue_control_message("ctl", fid)
    \/ \E fid \in 0..MaxFrameId : enqueue_binary_chunk(fid)
    \/ enqueue_drop_oldest \/ enqueue_retry \/ enqueue_register

NextProducers ==
    \/ worker_main_loop \/ worker_main_snapshot \/ worker_main_listening
    \/ run_session_handshaking \/ run_session_connect
    \/ WorkerSession \/ HostEnable
    \/ EnqueueStep
    \/ producer_put
    \/ PeerSend(HelloAckTcp)

SpecProducers == Init /\ [][NextProducers]_vars

EnqueueLeavesStatus ==
    EnqueueStep =>
        /\ client'.state = client.state
        /\ client'.transport = client.transport
        /\ client'.active_session_id = client.active_session_id
        /\ client'.last_error = client.last_error

\* C38: no step of enqueue_control_message or enqueue_binary_chunk, on a full
\* queue with or without a second producer, changes the connection state, the
\* transport, the session id or last_error; a message that finds the queue
\* full after the retry is dropped and nothing else happens.
C38_EnqueueLeavesStatus == [][EnqueueLeavesStatus]_vars

----------------------------------------------------------------------------
(* The seq of a slot over the life of its segment: a stream on shm of      *)
(* MaxSeqFrames frames of two sizes, all within the grace window of the    *)
(* retired rings; every seq committed to a slot is kept in the history.    *)

MaxSeqFrames == 7

InitSeq ==
    /\ client = InitClient
    /\ send_queue = <<>>
    /\ worker = InitWorker
    /\ host = InitHost
    /\ net = InitNet
    /\ sender = InitSender
    /\ framing = InitFraming
    /\ shm = InitShm
    /\ codec = InitCodec
    /\ ghost = [InitGhost EXCEPT !.seqing = TRUE]

NextSeq ==
    \/ start_stream \/ start_stream_set
    \/ \E n \in RequiredLens : send_rgba_frame_shm_upto(n, MaxSeqFrames)
    \/ write_slot_store \/ send_rgba_frame_shm_meta \/ send_rgba_frame_return
    \/ HostEnqueueFull

SpecSeq == InitSeq /\ [][NextSeq]_vars

\* C39: the committed (even) seq a reader finds in a slot is never below a seq
\* committed to that slot of that segment before, also when the sender has
\* made a new ring under the name of a segment that still exists (frame sizes
\* A, B, A within the grace window).
C39_SeqMonotonic ==
    \A c \in ghost.committed :
        LET seq == shm.segs[c[1]].slots[c[2]].seq
        IN seq % 2 = 0 => seq >= c[3]

----------------------------------------------------------------------------
(* Frames announced and not yet sent: the host sends frames on shm faster  *)
(* than the worker, streaming on shm, flushes the send queue; the queue    *)
(* has room for more buffers than the ring has slots, as 512 is above 4.   *)

MaxPending == 5         \* capacity of the send queue here
MaxPendingFrames == 5   \* frames of the run

InitPending ==
    /\ client = [InitClient EXCEPT !.maxsize = MaxPending]
    /\ send_queue = <<>>
    /\ worker = InitWorker
    /\ host = InitHost
    /\ net = InitNet
    /\ sender = InitSender
    /\ framing = InitFraming
    /\ shm = InitShm
    /\ codec = InitCodec
    /\ ghost = InitGhost

NextPending ==
    \/ worker_main_loop \/ worker_main_snapshot \/ worker_main_listening
    \/ run_session_handshaking \/ run_session_connect
    \/ WorkerSession \/ HostEnable
    \/ PeerSend(HelloAckShm)
    \/ start_stream \/ start_stream_set
    \/ \E n \in RequiredLens :
         client.transport = BRIDGE_TRANSPORT_SHM
            /\ send_rgba_frame_shm_upto(n, MaxPendingFrames)
    \/ write_slot_store \/ send_rgba_frame_shm_meta \/ send_rgba_frame_return
    \/ HostEnqueueFull

SpecPending == InitPending /\ [][NextPending]_vars

\* some segment holds frame f in its slot s
SlotHolds(f, s) ==
    \E i \in 1..Len(shm.segs) :
        /\ shm.segs[i].slots[s].fid = f
        /\ shm.segs[i].slots[s].seq % 2 = 0

\* C40: for every frame_meta (frameId f, shmSlot s) of a frame on shm that is
\* still in the send queue, slot s of the ring f was written to still holds
\* f, however many send_rgba_frame calls fall between two flushes of the queue.
C40_SlotHeld ==
    \A i \in 1..Len(send_queue) :
        send_queue[i].kind = "frame_meta" =>
            SlotHolds(send_queue[i].fid, send_queue[i].slot)

====
